---- MODULE Spec2Model ----
(***************************************************************************)
(* A model of usiem-datasetmanager-sqlite (src/lib.rs): the dataset        *)
(* registry, the SQLite storage adapter, the IP codec, and the update loop *)
(* of SqliteDatasetManager, together with producers that send updates, a   *)
(* reader that reads the published map, a second manager of the same       *)
(* process, a component that sends control messages, a storage medium      *)
(* whose calls can fail, and a later manager that opens the same file.     *)
(***************************************************************************)
EXTENDS Integers, Sequences, FiniteSets, TLC

\* ------------------------------------------------------------------ bounds

\* The clock is read at the instants c * (DEBOUNCE_MS + 1) - o, c <= MaxCycles,
\* o <= MaxOffset: the first instant at which a window that opened at the
\* previous one has elapsed, and the instants just before it.
MaxCycles == 2
MaxOffset == 1
\* Updates sent over the whole run.
MaxSends == 2
\* Identities registered in one manager.
MaxRegistered == 2
\* Calls of get_datasets on the manager.
MaxGetDatasets == 1
\* Calls of get_datasets on the second manager of the process.
MaxPeerCalls == 1
\* Calls of register_dataset entered in the log of calls.
MaxCalls == 2
\* Texts in the list of one Add to a list-valued dataset.
MaxList == 3
\* Times the database file is opened again by a new manager.
MaxReopen == 1
\* Messages sent on the control channel of the manager.
MaxControl == 1

\* ------------------------------------------------------- program constants

DEBOUNCE_MS == 5000
INBOX_CAPACITY == 128

\* -------------------------------------------------------------- identities

\* SiemDatasetType: a tag and, for the custom variants, a name.
WellKnownTags ==
    {"AssetTag", "BlockCountry", "BlockDomain", "BlockEmailSender", "BlockIp",
     "Configuration", "GeoIp", "HostUser", "HostVulnerable", "IpCloudProvider",
     "IpCloudService", "IpDNS", "IpHeadquarters", "IpHost", "IpMac", "MacHost",
     "UserHeadquarters", "UserTag"}

CustomTags ==
    {"CustomMapText", "CustomMapTextList", "CustomIpList", "CustomIpMap",
     "CustomMapIpNet", "CustomTextList", "Secrets"}

\* A variant of SiemDatasetType that register_dataset does not list.
OtherTag == "Other"

CustomNames == {"tenant"}

SiemDatasetType(tag, name) == [tag |-> tag, name |-> name]

AllIdents ==
    {SiemDatasetType(t, "") : t \in WellKnownTags \cup {OtherTag}}
        \cup {SiemDatasetType(t, n) : t \in CustomTags, n \in CustomNames}

\* The identities of the update-loop specification: one per behaviour of
\* register_dataset / get_datasets / run.
IpMac == SiemDatasetType("IpMac", "")
BlockIp == SiemDatasetType("BlockIp", "")
BlockDomain == SiemDatasetType("BlockDomain", "")
LoopIdents == {IpMac, BlockIp, BlockDomain}
\* The identities of the specification with a reader.
ReaderIdents == {IpMac}

\* The order of the BTreeMap keyed by SiemDatasetType: the order in which the
\* enum declares its variants (it is declared in the usiem crate; the loops
\* over the registry visit every entry whatever the order).
IdentOrder ==
    <<"AssetTag", "BlockCountry", "BlockDomain", "BlockEmailSender", "BlockIp",
      "Configuration", "GeoIp", "HostUser", "HostVulnerable", "IpCloudProvider",
      "IpCloudService", "IpDNS", "IpHeadquarters", "IpHost", "IpMac", "MacHost",
      "UserHeadquarters", "UserTag", "CustomMapText", "CustomMapTextList",
      "CustomIpList", "CustomIpMap", "CustomMapIpNet", "CustomTextList",
      "Secrets", "Other">>

Rank(d) == CHOOSE i \in 1..Len(IdentOrder) : IdentOrder[i] = d.tag

RECURSIVE InOrder(_)
\* The identities of set S as the BTreeMap / BTreeSet iterates them.
InOrder(S) ==
    IF S = {} THEN <<>>
    ELSE LET d == CHOOSE x \in S : \A y \in S : Rank(x) <= Rank(y)
         IN  <<d>> \o InOrder(S \ {d})

\* ------------------------------------------------------------------ values

\* SiemIp::V4(u32) and SiemIp::V6(u128).  A u32 / u128 is held as its base-256
\* digits, most significant first (the numbers exceed TLC's integers):
\* V4(2020) = V4(0x000007E4) is <<0, 0, 7, 228>>.
V4(digits) == [v |-> 4, n |-> digits]
V6(digits) == [v |-> 6, n |-> digits]

Reverse(s) == [i \in 1..Len(s) |-> s[Len(s) + 1 - i]]

\* u32::to_le_bytes / u128::to_le_bytes: least significant byte first.
to_le_bytes(digits) == Reverse(digits)

Ok(x) == [ok |-> TRUE, val |-> x]
Err == [ok |-> FALSE, val |-> "err"]

\* ip_to_vec8: the durable byte form of an address.
ip_to_vec8(ip) == to_le_bytes(ip.n)

\* ip_form_vec8: (v[0] << 24) | (v[1] << 16) | ... | v[3], so v[0] is the most
\* significant digit of the result; likewise for 16 bytes.
ip_form_vec8(v) ==
    IF Len(v) = 4 THEN Ok(V4(<<v[1], v[2], v[3], v[4]>>))
    ELSE IF Len(v) = 16 THEN Ok(V6([i \in 1..16 |-> v[i]]))
    ELSE Err

IP_2020 == V4(<<0, 0, 7, 228>>)
IP_2021 == V4(<<0, 0, 7, 229>>)
\* The addresses producers send.
Ips == {IP_2020}
Texts == {"default_ip"}

\* The in-memory datasets of the usiem crate: a map is a function from key to
\* value, a set is a set of keys.
EmptyMap == [k \in {} |-> "default_ip"]
MapInsert(m, k, v) == [x \in DOMAIN m \cup {k} |-> IF x = k THEN v ELSE m[x]]
MapRemove(m, k) == [x \in DOMAIN m \ {k} |-> m[x]]

IpMaps == {EmptyMap} \cup {MapInsert(EmptyMap, IP_2020, t) : t \in Texts}
IpSets == {{}, {IP_2020}}
TextSets == {{}} \cup {{t} : t \in Texts}

\* Update<K>: Add(key, value), Remove(key), Replace(dataset).  The fields an
\* update does not carry hold the empty value of their type.
Update(op, k, v, d) == [op |-> op, key |-> k, val |-> v, data |-> d]

UpdateIpMap ==
    {Update("Add", ip, t, EmptyMap) : ip \in Ips, t \in Texts}
        \cup {Update("Remove", ip, "", EmptyMap) : ip \in Ips}
        \cup {Update("Replace", IP_2020, "", d) : d \in IpMaps}

UpdateIpSet ==
    {Update("Add", ip, "", {}) : ip \in Ips}
        \cup {Update("Remove", ip, "", {}) : ip \in Ips}
        \cup {Update("Replace", IP_2020, "", d) : d \in IpSets}

UpdateTextSet ==
    {Update("Add", t, "", {}) : t \in Texts}
        \cup {Update("Remove", t, "", {}) : t \in Texts}
        \cup {Update("Replace", "", "", d) : d \in TextSets}

\* The updates a handle of each kind can send.
Updates(kind) ==
    CASE kind = "IpMap" -> UpdateIpMap
      [] kind = "IpSet" -> UpdateIpSet
      [] kind = "TextSet" -> UpdateTextSet
      [] OTHER -> {}

\* ----------------------------------------------------------------- storage

\* conn: the SQLite database, a function from table name to table.  A table
\* name is the list of the text fragments it is formatted from; a table holds
\* its columns and its rows as a function from data_key to the rest of the row
\* (every table that is written declares data_key UNIQUE).  seq is the last
\* rowid handed out, kept for the tables whose rowid is read back.
NoRows == <<>>
Table(cols) == [cols |-> cols, rows |-> NoRows, seq |-> 0]

\* dataset_<name> is named by name; dataset_list_<name> by list_ and name.
ListTable(name) == <<"list_">> \o name

\* format!("{:?}", dataset_name): the Debug form of the identity, the bare tag
\* for a unit variant and Tag("name") for a custom one.
DebugName(d) ==
    IF d.tag \in CustomTags THEN <<d.tag, "(\"", d.name, "\")">> ELSE <<d.tag>>

CreateTable(name, cols) == [stmt |-> "CREATE TABLE", table |-> name, cols |-> cols]
CreateIndex(name) == [stmt |-> "CREATE INDEX", table |-> name, cols |-> {}]

\* Connection::execute prepares and runs the first statement of its SQL text;
\* the statements after the first ';' are not run.  Errors are dropped by the
\* callers (let _ =).
execute(c, sql) ==
    IF sql = <<>> THEN c
    ELSE LET st == Head(sql)
         IN  IF st.stmt = "CREATE TABLE" /\ st.table \notin DOMAIN c
             THEN [n \in DOMAIN c \cup {st.table} |->
                      IF n = st.table THEN Table(st.cols) ELSE c[n]]
             ELSE c

create_map_text(name) ==
    <<CreateTable(name, {"id", "data_key", "data_val"}), CreateIndex(name)>>

create_map_text_list(name) ==
    <<CreateTable(name, {"id", "data_key"}), CreateIndex(name),
      CreateTable(ListTable(name), {"id", "data_key", "data_val"}),
      CreateIndex(ListTable(name))>>

create_map_ip_net(name) ==
    <<CreateTable(name, {"id", "network", "data_key", "data_val"}),
      CreateIndex(name)>>

create_geo_ip_net(name) ==
    <<CreateTable(name, {"id", "network", "data_key", "country", "city",
                         "latitude", "longitude", "isp"}),
      CreateIndex(name)>>

create_map_ip_list(name) ==
    <<CreateTable(name, {"id", "data_key"}), CreateIndex(name),
      CreateTable(ListTable(name), {"id", "data_key", "data_val"}),
      CreateIndex(ListTable(name))>>

create_map_ip(name) ==
    <<CreateTable(name, {"id", "data_key", "data_val"}), CreateIndex(name)>>

create_ip_set(name) ==
    <<CreateTable(name, {"id", "data_key"}), CreateIndex(name)>>

create_text_list(name) ==
    <<CreateTable(name, {"id", "network", "data_key", "data_val"}),
      CreateIndex(name)>>

\* A statement over table name that names columns cols can be prepared.
Prepares(c, name, cols) == name \in DOMAIN c /\ cols \subseteq c[name].cols

SetRows(c, name, rows) == [c EXCEPT ![name].rows = rows]

\* The outcomes of one apply: rusqlite::Result<()> and the database after it.
Applied(c) == [ok |-> TRUE, conn |-> c]
Failed(c) == [ok |-> FALSE, conn |-> c]

\* INSERT of one row: fails when data_key is already there (UNIQUE).
InsertRow(c, name, k, v) ==
    IF k \in DOMAIN c[name].rows THEN {Failed(c)}
    ELSE {Applied(SetRows(c, name, MapInsert(c[name].rows, k, v)))}

\* DELETE ... WHERE data_key = k LIMIT 1: SQLite takes LIMIT on a DELETE only
\* when it is built with SQLITE_ENABLE_UPDATE_DELETE_LIMIT; otherwise the
\* statement fails to prepare.  Both builds are outcomes.
DeleteRow(c, name, k) ==
    {Applied(SetRows(c, name, MapRemove(c[name].rows, k))), Failed(c)}

\* DELETE FROM dataset_<name>.
DeleteAll(c, name) == {Applied(SetRows(c, name, NoRows))}

\* An update_map_ip whose Replace arm leaves the rows in place.  The variant
\* the empty-Replace property is tested on.
update_map_ip_keep(c, name, update) ==
    IF ~Prepares(c, name, {"data_key", "data_val"}) THEN {Failed(c)}
    ELSE CASE update.op = "Add" ->
                  InsertRow(c, name, ip_to_vec8(update.key), update.val)
           [] update.op = "Remove" -> DeleteRow(c, name, ip_to_vec8(update.key))
           [] update.op = "Replace" -> {Applied(c)}

update_map_ip(c, name, update) ==
    IF ~Prepares(c, name, {"data_key", "data_val"}) THEN {Failed(c)}
    ELSE CASE update.op = "Add" ->
                  InsertRow(c, name, ip_to_vec8(update.key), update.val)
           [] update.op = "Remove" -> DeleteRow(c, name, ip_to_vec8(update.key))
           [] update.op = "Replace" -> DeleteAll(c, name)

\* Replace deletes every row and then inserts the addresses one by one.
update_ip_set(c, name, update) ==
    IF ~Prepares(c, name, {"data_key"}) THEN {Failed(c)}
    ELSE CASE update.op = "Add" -> InsertRow(c, name, ip_to_vec8(update.key), "")
           [] update.op = "Remove" -> DeleteRow(c, name, ip_to_vec8(update.key))
           [] update.op = "Replace" ->
                  LET rowsOf(S) == [k \in {to_le_bytes(ip.n) : ip \in S} |-> ""]
                  IN  {Applied(SetRows(c, name, rowsOf(update.data)))}

\* Add inserts the parent row, reads its rowid back and inserts one child row
\* per text (the child's data_key is UNIQUE, so a second text for the same
\* parent fails); Remove runs the first of its two statements.
update_map_ip_list(c, name, update) ==
    IF ~Prepares(c, name, {"data_key"}) THEN {Failed(c)}
    ELSE CASE update.op = "Add" ->
                  LET k == ip_to_vec8(update.key)
                      id == c[name].seq + 1
                      c1 == [c EXCEPT ![name].rows = MapInsert(@, k, id),
                                      ![name].seq = id]
                      child == ListTable(name)
                  IN  IF k \in DOMAIN c[name].rows THEN {Failed(c)}
                      ELSE IF update.val = <<>> THEN {Applied(c1)}
                      ELSE IF ~Prepares(c1, child, {"data_key", "data_val"})
                      THEN {Failed(c1)}
                      ELSE IF Len(update.val) = 1
                      THEN {Applied(SetRows(c1, child,
                                MapInsert(c1[child].rows, id, update.val[1])))}
                      ELSE {Failed(SetRows(c1, child,
                                MapInsert(c1[child].rows, id, update.val[1])))}
           [] update.op = "Remove" -> DeleteRow(c, name, ip_to_vec8(update.key))
           [] update.op = "Replace" -> DeleteAll(c, name)

update_geo_ip(c, name, update) ==
    CASE update.op = "Add" ->
             IF ~Prepares(c, name, {"data_key", "network", "country", "city",
                                    "latitude", "longitude", "isp"})
             THEN {Failed(c)}
             ELSE InsertRow(c, name, ip_to_vec8(update.key), update.val)
      [] update.op = "Remove" ->
             IF ~Prepares(c, name, {"data_key", "network"}) THEN {Failed(c)}
             ELSE DeleteRow(c, name, ip_to_vec8(update.key))
      [] update.op = "Replace" ->
             IF ~Prepares(c, name, {}) THEN {Failed(c)} ELSE DeleteAll(c, name)

\* An apply one of whose storage calls returns an error (the disk is full,
\* the file is locked, an I/O error): the calls before it have taken effect,
\* each in its own implicit transaction, and `?` returns the error.  In the
\* Replace arm of update_ip_set the calls are the DELETE and one INSERT per
\* address, in the order in which the set of the usiem crate iterates.
Interrupted(kind, c, name, update) ==
    IF name \notin DOMAIN c THEN {Failed(c)}
    ELSE IF kind = "UpdateIpSet" /\ update.op = "Replace"
    THEN {Failed(c)}
             \cup {Failed(SetRows(c, name, [k \in {to_le_bytes(ip.n) : ip \in S}
                                               |-> ""])) :
                      S \in (SUBSET update.data) \ {update.data}}
    ELSE IF kind = "UpdateIpMapList" /\ update.op = "Add" /\ update.val # <<>>
    THEN {Failed(c),
          Failed([c EXCEPT ![name].rows =
                               MapInsert(@, ip_to_vec8(update.key),
                                         c[name].seq + 1),
                           ![name].seq = @ + 1])}
    ELSE {Failed(c)}

\* ----------------------------------------------------------------- loaders

\* Each loader is rusqlite::Result<Dataset>: a full scan of the table.

\* The row's data_key is read as a String; a BLOB value, which is what
\* update_ip_set stores, is not one, and the scan fails on its first row.
dataset_ip_set(c, name) ==
    IF ~Prepares(c, name, {"data_key"}) THEN Err
    ELSE IF DOMAIN c[name].rows # {} THEN Err
    ELSE Ok({})

dataset_text_list(c, name) ==
    IF ~Prepares(c, name, {"data_key"}) THEN Err
    ELSE Ok(DOMAIN c[name].rows)

\* A scan of dataset_map_ip that stops one row short (a row's error ending the
\* query_map iteration early): the variant the atomicity property is tested on.
dataset_map_ip_partial(c, name) ==
    IF ~Prepares(c, name, {"data_key", "data_val"}) THEN Err
    ELSE LET rows == c[name].rows
             seen == IF DOMAIN rows = {} THEN {}
                     ELSE DOMAIN rows \ {CHOOSE k \in DOMAIN rows : TRUE}
         IN  Ok([ip \in {ip_form_vec8(k).val : k \in seen} |->
                    rows[CHOOSE k \in seen : ip_form_vec8(k).val = ip]])

dataset_map_ip(c, name) ==
    IF ~Prepares(c, name, {"data_key", "data_val"}) THEN Err
    ELSE LET rows == c[name].rows
         IN  IF \E k \in DOMAIN rows : ~ip_form_vec8(k).ok THEN Err
             ELSE Ok([ip \in {ip_form_vec8(k).val : k \in DOMAIN rows} |->
                         rows[CHOOSE k \in DOMAIN rows : ip_form_vec8(k).val = ip]])

dataset_map_text(c, name) ==
    IF ~Prepares(c, name, {"data_key", "data_val"}) THEN Err
    ELSE Ok(c[name].rows)

\* The join of the parent table with the child table on the parent's rowid.
\* The parent's data_key is read as a String; the rows a list table holds are
\* those update_map_ip_list wrote, with a BLOB key, and the scan fails on the
\* first joined row.
dataset_map_text_list(c, name) ==
    IF ~Prepares(c, name, {"id", "data_key"})
          \/ ~Prepares(c, ListTable(name), {"data_key", "data_val"})
    THEN Err
    ELSE LET rows == c[name].rows
             child == c[ListTable(name)].rows
             keys == {k \in DOMAIN rows : rows[k] \in DOMAIN child}
         IN  IF keys # {} THEN Err ELSE Ok(EmptyMap)

dataset_map_ip_net(c, name) ==
    IF ~Prepares(c, name, {"network", "data_key", "data_val"}) THEN Err
    ELSE LET rows == c[name].rows
         IN  Ok([ip \in {ip_form_vec8(k).val :
                            k \in {x \in DOMAIN rows : ip_form_vec8(x).ok}} |->
                    rows[CHOOSE k \in DOMAIN rows : ip_form_vec8(k).val = ip]])

dataset_geo_ip_net(c, name) ==
    IF ~Prepares(c, name, {"network", "data_key", "country", "city",
                           "latitude", "longitude", "isp"})
    THEN Err
    ELSE LET rows == c[name].rows
         IN  Ok([ip \in {ip_form_vec8(k).val :
                            k \in {x \in DOMAIN rows : ip_form_vec8(x).ok}} |->
                    rows[CHOOSE k \in DOMAIN rows : ip_form_vec8(k).val = ip]])

\* ---------------------------------------------------------------- registry

\* register_dataset: the UpdateListener variant built for an identity; every
\* custom identity and Secrets get UpdateTextMap, an unlisted identity none.
ListenerKind(d) ==
    CASE d.tag \in CustomTags -> "UpdateTextMap"
      [] d.tag = "GeoIp" -> "UpdateGeoIp"
      [] d.tag \in {"IpHost", "IpMac"} -> "UpdateIpMap"
      [] d.tag = "IpDNS" -> "UpdateIpMapList"
      [] d.tag \in {"MacHost", "HostUser", "UserHeadquarters", "Configuration"} ->
             "UpdateTextMap"
      [] d.tag = "BlockIp" -> "UpdateIpSet"
      [] d.tag \in {"BlockDomain", "BlockEmailSender", "BlockCountry"} ->
             "UpdateTextSet"
      [] d.tag \in {"HostVulnerable", "UserTag", "AssetTag"} -> "UpdateTextMapList"
      [] d.tag \in {"IpCloudService", "IpCloudProvider", "IpHeadquarters"} ->
             "UpdateNetIp"
      [] OTHER -> "none"

\* UpdateListener::X(Sender, Receiver, i64): the inbox and the last flush time.
UpdateListener(kind, t) == [kind |-> kind, q |-> <<>>, t |-> t]

\* The SynDataset type that carries a Sender of each listener variant.
SynKind(listener) ==
    CASE listener = "UpdateTextSet" -> "TextSet"
      [] listener = "UpdateTextMap" -> "TextMap"
      [] listener = "UpdateTextMapList" -> "TextMapList"
      [] listener = "UpdateIpSet" -> "IpSet"
      [] listener = "UpdateNetIp" -> "IpNet"
      [] listener = "UpdateIpMapList" -> "IpMapList"
      [] listener = "UpdateIpMap" -> "IpMap"
      [] listener = "UpdateGeoIp" -> "GeoIp"

\* The SynDataset type each SiemDataset variant wraps.
DatasetKind(d) ==
    CASE d.tag \in {"BlockCountry", "BlockDomain", "BlockEmailSender",
                    "CustomTextList", "Secrets"} -> "TextSet"
      [] d.tag \in {"Configuration", "HostUser", "MacHost", "UserHeadquarters",
                    "CustomMapText"} -> "TextMap"
      [] d.tag \in {"HostVulnerable", "UserTag", "AssetTag",
                    "CustomMapTextList"} -> "TextMapList"
      [] d.tag \in {"BlockIp", "CustomIpList"} -> "IpSet"
      [] d.tag \in {"IpHost", "IpMac", "CustomIpMap"} -> "IpMap"
      [] d.tag = "IpDNS" -> "IpMapList"
      [] d.tag \in {"IpCloudProvider", "IpCloudService", "IpHeadquarters",
                    "CustomMapIpNet"} -> "IpNet"
      [] d.tag = "GeoIp" -> "GeoIp"
      [] OTHER -> "none"

\* SiemDataset::try_from((identity, syn dataset)) is Ok when the identity's
\* variant wraps that SynDataset type.
try_from(d, syn) == DatasetKind(d) = syn

\* The table name get_datasets uses: the custom name, or the tag as a literal.
GdName(d) == IF d.tag \in CustomTags THEN <<d.name>> ELSE <<d.tag>>

\* get_datasets, one arm per identity: the schema it creates, the loader it
\* calls, the listener variant it publishes for, and the key it publishes under.
GdArm(d) ==
    LET n == GdName(d)
        arm(create, load, listener, key) ==
            [create |-> create, load |-> load, listener |-> listener, key |-> key]
        only(create) == arm(create, "none", "none", d)
    IN  CASE d.tag = "CustomMapText" -> only(create_map_text(n))
          [] d.tag = "CustomMapTextList" -> only(create_map_text_list(n))
          [] d.tag = "CustomIpList" -> only(create_map_ip_list(n))
          [] d.tag = "CustomIpMap" -> only(create_map_ip(n))
          [] d.tag = "CustomMapIpNet" -> only(create_map_ip_net(n))
          [] d.tag \in {"CustomTextList", "Secrets"} ->
                 arm(create_text_list(n), "text_list", "UpdateTextSet",
                     SiemDatasetType("CustomTextList", d.name))
          [] d.tag = "AssetTag" -> only(create_map_text_list(n))
          [] d.tag \in {"BlockCountry", "BlockDomain", "BlockEmailSender"} ->
                 arm(create_map_text_list(n), "text_list", "UpdateTextSet", d)
          [] d.tag = "BlockIp" -> arm(create_ip_set(n), "ip_set", "UpdateIpSet", d)
          [] d.tag \in {"Configuration", "HostUser", "MacHost",
                        "UserHeadquarters"} ->
                 arm(create_map_text(n), "map_text", "UpdateTextMap", d)
          [] d.tag = "GeoIp" -> only(create_map_ip_net(n))
          [] d.tag \in {"HostVulnerable", "UserTag"} ->
                 arm(create_map_text_list(n), "map_text_list",
                     "UpdateTextMapList", d)
          [] d.tag \in {"IpCloudProvider", "IpCloudService"} ->
                 arm(create_map_ip_net(n), "map_ip_net", "UpdateNetIp", d)
          [] d.tag = "IpDNS" -> only(create_map_ip_list(n))
          [] d.tag = "IpHeadquarters" -> only(create_map_ip_net(n))
          [] d.tag \in {"IpHost", "IpMac"} ->
                 arm(create_map_ip(n), "map_ip", "UpdateIpMap", d)
          [] OTHER -> only(<<>>)

Load(loader, c, name) ==
    CASE loader = "text_list" -> dataset_text_list(c, name)
      [] loader = "ip_set" -> dataset_ip_set(c, name)
      [] loader = "map_text" -> dataset_map_text(c, name)
      [] loader = "map_text_list" -> dataset_map_text_list(c, name)
      [] loader = "map_ip_net" -> dataset_map_ip_net(c, name)
      [] loader = "map_ip" -> dataset_map_ip(c, name)
      [] loader = "geo_ip_net" -> dataset_geo_ip_net(c, name)

\* run, drain pass: the listener variants that have an arm, and their apply.
DrainKinds == {"UpdateIpMap", "UpdateIpSet", "UpdateIpMapList", "UpdateGeoIp"}

Apply(kind, c, name, update) ==
    CASE kind = "UpdateIpMap" -> update_map_ip(c, name, update)
      [] kind = "UpdateIpSet" -> update_ip_set(c, name, update)
      [] kind = "UpdateIpMapList" -> update_map_ip_list(c, name, update)
      [] kind = "UpdateGeoIp" -> update_geo_ip(c, name, update)

\* run, rebuild pass: the loader of each listener variant that has an arm.
RebuildLoader(kind) ==
    CASE kind = "UpdateIpMap" -> "map_ip"
      [] kind = "UpdateIpSet" -> "ip_set"
      [] kind = "UpdateTextMap" -> "map_text"
      [] kind = "UpdateTextMapList" -> "map_text_list"
      [] kind = "UpdateTextSet" -> "text_list"
      [] kind = "UpdateGeoIp" -> "geo_ip_net"
      [] OTHER -> "none"

\* ------------------------------------------------------------------- state

VARIABLES
    now,                  \* chrono::Utc::now().timestamp_millis()
    registered_datasets,  \* identity -> UpdateListener
    conn,                 \* the database
    DATASETS,             \* the published map: identity -> SiemDataset
    poisoned,             \* the DATASETS mutex was held by a thread that panicked
    heap,                 \* the Arc allocations holding the snapshots
    pc,                   \* where the manager is: new, loop, drain, rebuild,
                          \* publish, panicked
    time,                 \* run: the time sampled in this iteration
    todo,                 \* run: the registry entries the drain pass has to visit
    updated_datasets,     \* run: the identities marked in this iteration
    new_datasets,         \* run: the SiemDatasets built in this iteration
    gd_calls,             \* calls of get_datasets so far
    reader,               \* identity -> the Arc the reader captured on its last
                          \* read of the published map
    sentlog,              \* history: identity -> the updates sent to its inbox
    committed,            \* history: identity -> the rows of its table at the
                          \* ends of the drain passes
    completed,            \* history: identities registered when get_datasets returned
    codec,                \* the codec round trip: an address, its bytes, the result
    peer,                 \* a second manager of the same process: its registry,
                          \* its database, its calls of get_datasets, its state
    local_chnl,           \* the control channel: the messages in it and, as
                          \* history, the number sent
    lock,                 \* the holder of the DATASETS mutex between two steps
    storage,              \* the storage medium: sound, or one whose calls can
                          \* return an error
    calls,                \* history: the calls of register_dataset
    previous,             \* history: the manager that had the database file
                          \* open before this one
    lists,                \* the list round trip: a key, its texts, the result
    stdout,               \* the lines the manager has written to standard output
    senders,              \* channel -> the Senders of it that components hold
    comp_channels,        \* identity -> the subscriber channels of its type
    subscriber,           \* subscriber -> its channel, its position and, as
                          \* history, the messages sent to it
    sending,              \* run: the snapshot the publish step has inserted
                          \* and the subscriber channels it has still to
                          \* send it to
    inserted              \* history: the snapshots run inserted into the
                          \* published map, each with the channels registered
                          \* for its type at that time

vars ==
    <<now, registered_datasets, conn, DATASETS, poisoned, heap, pc, time, todo,
      updated_datasets, new_datasets, gd_calls, reader, sentlog, committed,
      completed, codec, peer, local_chnl, lock, storage, calls, previous, lists,
      stdout, senders, comp_channels, subscriber, sending, inserted>>

chanVars == <<senders, comp_channels, subscriber, sending, inserted>>

auxVars ==
    <<local_chnl, lock, storage, calls, previous, lists, stdout, chanVars>>

loopVars == <<time, todo, updated_datasets, new_datasets>>
histVars == <<sentlog, committed, completed>>

EmptyFcn == [x \in {} |-> 0]

Instants ==
    {t \in {c * (DEBOUNCE_MS + 1) - o : c \in 0..MaxCycles, o \in 0..MaxOffset} :
        t >= 0}
MaxInstant == MaxCycles * (DEBOUNCE_MS + 1)

\* A snapshot on the heap: the dataset, and as history the identity it was
\* built for, the function that built it, the number of updates received from
\* the inbox before the scan, and the number of the rebuild (0: get_datasets).
Snapshot(data, owner, origin, upto, build) ==
    [data |-> data, owner |-> owner, origin |-> origin, upto |-> upto,
     build |-> build]

\* A publication that reuses the allocation: the new dataset is also written
\* over the earlier snapshots of its identity (an Arc<Mutex<..>> updated in
\* place).  The variant the immutability property is tested on.
ArcFrom_inplace(h, snapshot) ==
    Append([a \in 1..Len(h) |->
               IF h[a].owner = snapshot.owner THEN snapshot ELSE h[a]],
           snapshot)

\* Arc::from(dataset): a fresh allocation.
ArcFrom(h, snapshot) == Append(h, snapshot)

\* The managers of one process: the one whose run loop is followed, and a
\* second one.  Both use the one DATASETS map.
Manager == "manager"
Peer == "peer"

\* A Sender that feeds the inbox of IpMac whatever the identity.  The variant
\* the handle property is tested on.
Sender_fixed(m, d) == [mgr |-> m, inbox |-> IpMac]

\* A Sender: the manager and the identity whose inbox it feeds.
Sender(m, d) == [mgr |-> m, inbox |-> d]

\* A SiemDataset: its variant (dataset_type()), the SynDataset type inside it,
\* the Arc of its snapshot and the Sender cloned into it.
SiemDataset(variant, syn, snap, s) ==
    [variant |-> variant, syn |-> syn, snap |-> snap, s |-> s]

Registered == DOMAIN registered_datasets
Published == DOMAIN DATASETS

\* The updates received so far from the inbox of identity d.
Recvd(reg, d) == Len(sentlog[d]) - Len(reg[d].q)

TotalSent(log) ==
    LET RECURSIVE Sum(_)
        Sum(S) == IF S = {} THEN 0
                  ELSE LET d == CHOOSE x \in S : TRUE
                       IN  Len(log[d]) + Sum(S \ {d})
    IN  Sum(DOMAIN log)

NoCodec == [stage |-> "idle", ip |-> IP_2020, bytes |-> <<>>, out |-> Err]

\* SqliteDatasetManager::new / debug for the second manager.
NewPeer ==
    [registered_datasets |-> EmptyFcn, conn |-> EmptyFcn, gd_calls |-> 0,
     pc |-> "new"]

\* The control channel of SqliteDatasetManager::new: empty.
NoMessages == [q |-> <<>>, sent |-> 0]

\* The channels of the manager whose Senders components are followed: the
\* inboxes of the identities with a reader and the control channel.
Control == [tag |-> "local_chnl", name |-> ""]
Channels == ReaderIdents \cup {Control}

\* The components that subscribe to datasets, each with one channel of
\* SubCapacity messages.
Subscribers == {"parser", "enricher"}
SubCapacity == 1
NewSubscriber == [q |-> <<>>, log |-> <<>>, pc |-> "recv"]

\* The publish step of run is not between an insert and its sends.
NoSending == [snap |-> 0, variant |-> "", comps |-> <<>>]

\* No manager had the database file open before.
NoPrevious == [opened |-> 0, flushed |-> EmptyFcn]

NoLists == [stage |-> "idle", key |-> IP_2020, val |-> <<>>, out |-> Err]

InitManager ==
    /\ now = 0
    /\ registered_datasets = EmptyFcn
    /\ conn = EmptyFcn
    /\ DATASETS = EmptyFcn
    /\ poisoned = FALSE
    /\ heap = <<>>
    /\ pc = "new"
    /\ time = 0
    /\ todo = <<>>
    /\ updated_datasets = {}
    /\ new_datasets = <<>>
    /\ gd_calls = 0
    /\ reader = EmptyFcn
    /\ sentlog = EmptyFcn
    /\ committed = EmptyFcn
    /\ completed = {}
    /\ peer = NewPeer
    /\ local_chnl = NoMessages
    /\ lock = "free"
    /\ calls = <<>>
    /\ previous = NoPrevious
    /\ stdout = {}
    /\ senders = [c \in Channels |-> 0]
    /\ comp_channels = EmptyFcn
    /\ subscriber = [s \in Subscribers |-> NewSubscriber]
    /\ sending = NoSending
    /\ inserted = <<>>

Init ==
    /\ InitManager
    /\ storage = "sound"
    /\ codec = NoCodec
    /\ lists = NoLists

\* ----------------------------------------------------------------- actions

\* The clock moves on while the manager thread runs (the calls that set a
\* manager up are taken to fall within one millisecond).
Tick ==
    /\ pc \notin {"new", "panicked"}
    /\ \E t \in Instants : t > now /\ now' = t
    /\ UNCHANGED <<registered_datasets, conn, DATASETS, poisoned, heap, pc,
                   loopVars, gd_calls, reader, histVars, codec, peer, auxVars>>

\* run takes the manager by &mut self and never returns: the other methods
\* can be called only before it.
NotRunning == pc = "new"

\* A registration that replaces the listener of an identity that is already
\* registered: a new inbox and a new flush time.  The variant the idempotence
\* property is tested on.
Register_again(reg, dataset, t) ==
    IF ListenerKind(dataset) # "none"
    THEN MapInsert(reg, dataset, UpdateListener(ListenerKind(dataset), t))
    ELSE reg

\* register_dataset, on registry reg at time t: an identity that is not yet
\* registered and has an arm gets a listener with a new inbox.
Register(reg, dataset, t) ==
    IF dataset \notin DOMAIN reg /\ ListenerKind(dataset) # "none"
    THEN MapInsert(reg, dataset, UpdateListener(ListenerKind(dataset), t))
    ELSE reg

\* register_dataset(dataset): what the call does to the manager.
RegisterDataset(dataset) ==
    /\ NotRunning
    /\ dataset \in Registered \/ Cardinality(Registered) < MaxRegistered
    /\ registered_datasets' = Register(registered_datasets, dataset, now)
    /\ IF dataset \in DOMAIN registered_datasets' \ Registered
       THEN /\ sentlog' = MapInsert(sentlog, dataset, <<>>)
            /\ committed' = MapInsert(committed, dataset, {})
       ELSE UNCHANGED <<sentlog, committed>>
    /\ stdout' = IF dataset \notin Registered /\ ListenerKind(dataset) = "none"
                 THEN stdout \cup {"Dataset type not defined!!!"}
                 ELSE stdout
    /\ UNCHANGED <<now, conn, DATASETS, poisoned, heap, pc, loopVars, gd_calls,
                   reader, completed, codec, peer, local_chnl, lock, storage,
                   previous, lists, chanVars>>

\* register_dataset(dataset).
register_dataset(dataset) == RegisterDataset(dataset) /\ UNCHANGED calls

\* register_dataset(dataset), the call entered in the log of calls with
\* whether the identity was registered when it was made, the time of the call,
\* the number of updates the inbox of the identity held, and what the call
\* returned: the function has no return type, every path returns ().
register_dataset_logged(dataset) ==
    /\ Len(calls) < MaxCalls
    /\ RegisterDataset(dataset)
    /\ calls' = Append(calls,
                       [dataset |-> dataset,
                        known |-> dataset \in Registered,
                        time |-> now,
                        queued |-> IF dataset \in Registered
                                   THEN Len(registered_datasets[dataset].q)
                                   ELSE 0,
                        result |-> "()"])

\* The clock moves on between the calls that set a manager up.
SetupTick ==
    /\ pc = "new"
    /\ \E t \in Instants : t > now /\ now' = t
    /\ UNCHANGED <<registered_datasets, conn, DATASETS, poisoned, heap, pc,
                   loopVars, gd_calls, reader, histVars, codec, peer, auxVars>>

RECURSIVE GdFold(_, _)
\* get_datasets, the loop over the registry of manager st.mgr: st holds that
\* registry and the database, the published map and the heap so far.
GdFold(ds, st) ==
    IF ds = <<>> \/ st.panic THEN st
    ELSE LET d == Head(ds)
             listener == st.reg[d]
             arm == GdArm(d)
             c1 == execute(st.conn, arm.create)
             r == Load(arm.load, c1, GdName(d))
             a == Len(st.heap) + 1
         IN  IF arm.load = "none"
             THEN GdFold(Tail(ds), [st EXCEPT !.conn = c1])
             ELSE IF ~r.ok
             THEN [st EXCEPT !.conn = c1, !.panic = TRUE]
             ELSE IF listener.kind = arm.listener
             THEN GdFold(Tail(ds),
                         [st EXCEPT
                            !.conn = c1,
                            !.heap = ArcFrom(st.heap,
                                        Snapshot(r.val, d, "get_datasets", 0, 0)),
                            !.datasets =
                                MapInsert(st.datasets, arm.key,
                                    SiemDataset(arm.key, SynKind(arm.listener), a,
                                                Sender(st.mgr, d)))])
             ELSE GdFold(Tail(ds), [st EXCEPT !.conn = c1])

\* get_datasets(): under the DATASETS lock, create and load every registered
\* dataset and publish it; a failed load panics with the lock held.  The call
\* waits while the lock is held.
get_datasets ==
    /\ NotRunning
    /\ lock = "free"
    /\ gd_calls < MaxGetDatasets
    /\ gd_calls' = gd_calls + 1
    /\ IF poisoned
       THEN /\ pc' = "panicked"
            /\ UNCHANGED <<conn, DATASETS, heap, poisoned, completed>>
       ELSE LET st == GdFold(InOrder(Registered),
                             [mgr |-> Manager, reg |-> registered_datasets,
                              conn |-> conn, heap |-> heap,
                              datasets |-> DATASETS, panic |-> FALSE])
            IN  /\ conn' = st.conn
                /\ heap' = st.heap
                /\ DATASETS' = st.datasets
                /\ poisoned' = st.panic
                /\ pc' = IF st.panic THEN "panicked" ELSE pc
                /\ completed' = IF st.panic THEN completed ELSE Registered
    /\ UNCHANGED <<now, registered_datasets, loopVars, reader, sentlog,
                   committed, codec, peer, auxVars>>

\* A producer sends an update through the Sender of a published handle of the
\* manager.
\* Producers stop sending one debounce window before the last instant of the
\* clock, so that the window of every update sent can elapse.
Send(d, update) ==
    /\ d \in Published
    /\ pc # "panicked"
    /\ TotalSent(sentlog) < MaxSends
    /\ now + DEBOUNCE_MS < MaxInstant
    /\ DATASETS[d].s.mgr = Manager
    /\ LET inbox == DATASETS[d].s.inbox
       IN  /\ Len(registered_datasets[inbox].q) < INBOX_CAPACITY
           /\ registered_datasets' =
                  [registered_datasets EXCEPT ![inbox].q = Append(@, update)]
           /\ sentlog' = [sentlog EXCEPT ![inbox] = Append(@, update)]
    /\ UNCHANGED <<now, conn, DATASETS, poisoned, heap, pc, loopVars, gd_calls,
                   reader, committed, completed, codec, peer, auxVars>>

\* register_dataset(dataset) on the second manager.
peer_register_dataset(dataset) ==
    /\ peer.pc = "new"
    /\ \/ dataset \in DOMAIN peer.registered_datasets
       \/ Cardinality(DOMAIN peer.registered_datasets) < MaxRegistered
    /\ peer' = [peer EXCEPT
                  !.registered_datasets = Register(@, dataset, now)]
    /\ UNCHANGED <<now, registered_datasets, conn, DATASETS, poisoned, heap, pc,
                   loopVars, gd_calls, reader, histVars, codec, auxVars>>

\* get_datasets() on the second manager: its registry and its database, the
\* DATASETS map of the process.
peer_get_datasets ==
    /\ peer.pc = "new"
    /\ lock = "free"
    /\ peer.gd_calls < MaxPeerCalls
    /\ IF poisoned
       THEN /\ peer' = [peer EXCEPT !.gd_calls = @ + 1, !.pc = "panicked"]
            /\ UNCHANGED <<DATASETS, heap, poisoned>>
       ELSE LET st == GdFold(InOrder(DOMAIN peer.registered_datasets),
                             [mgr |-> Peer, reg |-> peer.registered_datasets,
                              conn |-> peer.conn, heap |-> heap,
                              datasets |-> DATASETS, panic |-> FALSE])
            IN  /\ peer' = [peer EXCEPT
                              !.gd_calls = @ + 1,
                              !.conn = st.conn,
                              !.pc = IF st.panic THEN "panicked" ELSE @]
                /\ heap' = st.heap
                /\ DATASETS' = st.datasets
                /\ poisoned' = st.panic
    /\ UNCHANGED <<now, registered_datasets, conn, pc, loopVars, gd_calls,
                   reader, histVars, codec, auxVars>>

\* A reader locks the published map and clones the handle of one dataset.
ReaderRead(d) ==
    /\ ~poisoned
    /\ lock = "free"
    /\ d \in Published
    /\ reader' = MapInsert(reader, d, DATASETS[d].snap)
    /\ UNCHANGED <<now, registered_datasets, conn, DATASETS, poisoned, heap, pc,
                   loopVars, gd_calls, histVars, codec, peer, auxVars>>

\* run() is called: the manager thread enters the loop.
RunStart ==
    /\ NotRunning
    /\ pc' = "loop"
    /\ UNCHANGED <<now, registered_datasets, conn, DATASETS, poisoned, heap,
                   loopVars, gd_calls, reader, histVars, codec, peer, auxVars>>

\* A manager that keeps no Sender of its channels.  The variant the
\* disconnection property is tested on.
Owned_none(reg, ch) == 0

\* The Senders of channel ch the manager keeps itself: local_chnl_snd for the
\* control channel, the Sender inside the UpdateListener for an inbox.
Owned(reg, ch) == IF ch = Control \/ ch \in DOMAIN reg THEN 1 ELSE 0

\* try_recv on channel ch with messages q returns Disconnected: the channel
\* is empty and no Sender of it is left.
Disconnected(reg, q, ch) ==
    /\ q = <<>>
    /\ Owned(reg, ch) + (IF ch \in DOMAIN senders THEN senders[ch] ELSE 0) = 0

\* run, the head of one iteration: one try_recv on the control channel, whose
\* message, if there is one, is dropped (Ok(_msg) => {}) and whose
\* disconnection panics; the marks are cleared and the time is sampled.
RunIteration ==
    /\ pc = "loop"
    /\ IF Disconnected(registered_datasets, local_chnl.q, Control)
       THEN /\ pc' = "panicked"
            /\ UNCHANGED <<local_chnl, time, updated_datasets, new_datasets,
                           todo>>
       ELSE /\ local_chnl' = IF local_chnl.q = <<>> THEN local_chnl
                             ELSE [local_chnl EXCEPT !.q = Tail(@)]
            /\ time' = now
            /\ updated_datasets' = {}
            /\ new_datasets' = <<>>
            /\ todo' = InOrder(Registered)
            /\ pc' = "drain"
    /\ UNCHANGED <<now, registered_datasets, conn, DATASETS, poisoned, heap,
                   gd_calls, reader, histVars, codec, peer, lock, storage,
                   calls, previous, lists, stdout, chanVars>>

\* A drain pass without a debounce window: an inbox is read in every iteration
\* whose time is past the last flush.  The variant the debounce property is
\* tested on.
Due_nowindow(listener, t) == listener.t < t

\* The debounce test of the drain pass.
Due(listener, t) == (listener.t + DEBOUNCE_MS) < t

\* The rows of the table the update loop uses for identity d.
Rows(c, d) == IF DebugName(d) \in DOMAIN c THEN {c[DebugName(d)].rows} ELSE {}

\* The outcomes of one apply of the drain pass on the storage medium in use.
Outcomes(kind, c, name, update) ==
    Apply(kind, c, name, update)
        \cup (IF storage = "failing" THEN Interrupted(kind, c, name, update)
              ELSE {})

\* A drain pass that takes the newest update of the inbox first (a stack in
\* place of the channel).  The variant the order property is tested on.
RunDrain_newest ==
    /\ pc = "drain"
    /\ IF todo = <<>>
       THEN /\ pc' = "rebuild"
            /\ committed' = [d \in Registered |-> committed[d] \cup Rows(conn, d)]
            /\ UNCHANGED <<registered_datasets, conn, todo, updated_datasets>>
       ELSE LET d == Head(todo)
                listener == registered_datasets[d]
                n == Len(listener.q)
            IN  IF /\ listener.kind \in DrainKinds
                   /\ Due(listener, time)
                   /\ listener.q # <<>>
                THEN /\ \E r \in Outcomes(listener.kind, conn, DebugName(d),
                                          listener.q[n]) : conn' = r.conn
                     /\ registered_datasets' =
                            [registered_datasets EXCEPT
                                ![d].q = SubSeq(@, 1, n - 1)]
                     /\ updated_datasets' = updated_datasets \cup {d}
                     /\ UNCHANGED <<pc, todo, committed>>
                ELSE /\ todo' = Tail(todo)
                     /\ UNCHANGED <<pc, registered_datasets, conn,
                                    updated_datasets, committed>>
    /\ UNCHANGED <<now, DATASETS, poisoned, heap, time, new_datasets, gd_calls,
                   reader, sentlog, completed, codec, peer, auxVars>>

\* run, one step of the drain pass: one try_recv on the inbox of the entry the
\* pass is at.  An update is applied and its identity marked whatever apply
\* returns; an empty inbox, a window not yet elapsed or a variant without arm
\* moves the pass to the next entry, and a disconnected inbox panics.
RunDrain ==
    /\ pc = "drain"
    /\ IF todo = <<>>
       THEN /\ pc' = "rebuild"
            /\ committed' = [d \in Registered |-> committed[d] \cup Rows(conn, d)]
            /\ UNCHANGED <<registered_datasets, conn, todo, updated_datasets>>
       ELSE LET d == Head(todo)
                listener == registered_datasets[d]
            IN  IF /\ listener.kind \in DrainKinds
                   /\ Due(listener, time)
                   /\ listener.q # <<>>
                THEN /\ \E r \in Outcomes(listener.kind, conn, DebugName(d),
                                          Head(listener.q)) : conn' = r.conn
                     /\ registered_datasets' =
                            [registered_datasets EXCEPT ![d].q = Tail(@)]
                     /\ updated_datasets' = updated_datasets \cup {d}
                     /\ UNCHANGED <<pc, todo, committed>>
                ELSE IF /\ listener.kind \in DrainKinds
                        /\ Due(listener, time)
                        /\ Disconnected(registered_datasets, listener.q, d)
                THEN /\ pc' = "panicked"
                     /\ UNCHANGED <<registered_datasets, conn, todo,
                                    updated_datasets, committed>>
                ELSE /\ todo' = Tail(todo)
                     /\ UNCHANGED <<pc, registered_datasets, conn,
                                    updated_datasets, committed>>
    /\ UNCHANGED <<now, DATASETS, poisoned, heap, time, new_datasets, gd_calls,
                   reader, sentlog, completed, codec, peer, auxVars>>

\* The number of the last rebuild of identity d on heap h.
Builds(h, d) ==
    Cardinality({a \in 1..Len(h) : h[a].owner = d /\ h[a].origin = "run"})

RECURSIVE RebuildFold(_, _)
\* run, the rebuild pass over the marked identities: st is the registry, the
\* heap and new_datasets so far.
RebuildFold(ds, st) ==
    IF ds = <<>> \/ st.panic THEN st
    ELSE LET d == Head(ds)
             listener == st.reg[d]
             loader == RebuildLoader(listener.kind)
             reg1 == [st.reg EXCEPT ![d].t = time]
             r == Load(loader, conn, DebugName(d))
             a == Len(st.heap) + 1
             syn == SynKind(listener.kind)
         IN  IF loader = "none" THEN RebuildFold(Tail(ds), st)
             ELSE IF ~r.ok THEN [st EXCEPT !.reg = reg1, !.panic = TRUE]
             ELSE IF try_from(d, syn)
             THEN RebuildFold(Tail(ds),
                      [reg |-> reg1,
                       heap |-> ArcFrom(st.heap,
                                   Snapshot(r.val, d, "run", Recvd(st.reg, d),
                                            Builds(st.heap, d) + 1)),
                       new |-> Append(st.new,
                                      SiemDataset(d, syn, a, Sender(Manager, d))),
                       panic |-> FALSE])
             ELSE RebuildFold(Tail(ds), [st EXCEPT !.reg = reg1])

\* A rebuild pass that goes on to the publish step when a load has failed,
\* with the snapshots built before the failure.  The variant the fatal-load
\* property is tested on.
RunRebuild_goes_on ==
    /\ pc = "rebuild"
    /\ LET st == RebuildFold(InOrder(updated_datasets),
                              [reg |-> registered_datasets, heap |-> heap,
                               new |-> <<>>, panic |-> FALSE])
       IN  /\ registered_datasets' = st.reg
           /\ heap' = st.heap
           /\ new_datasets' = st.new
           /\ pc' = "publish"
    /\ UNCHANGED <<now, conn, DATASETS, poisoned, time, todo, updated_datasets,
                   gd_calls, reader, histVars, codec, peer, auxVars>>

\* run, the rebuild pass: every marked identity gets its flush time set and
\* its table loaded into a new snapshot; a failed load panics.
RunRebuild ==
    /\ pc = "rebuild"
    /\ LET st == RebuildFold(InOrder(updated_datasets),
                              [reg |-> registered_datasets, heap |-> heap,
                               new |-> <<>>, panic |-> FALSE])
       IN  /\ registered_datasets' = st.reg
           /\ heap' = st.heap
           /\ new_datasets' = st.new
           /\ pc' = IF st.panic THEN "panicked" ELSE "publish"
    /\ UNCHANGED <<now, conn, DATASETS, poisoned, time, todo, updated_datasets,
                   gd_calls, reader, histVars, codec, peer, auxVars>>

RECURSIVE InsertAll(_, _)
\* datasets.insert(dataset.dataset_type(), dataset) for each of new_datasets.
InsertAll(datasets, new) ==
    IF new = <<>> THEN datasets
    ELSE InsertAll(MapInsert(datasets, Head(new).variant, Head(new)), Tail(new))

\* run, the publish step: under the DATASETS lock every new SiemDataset
\* replaces the published one; the thread waits while the lock is held, and a
\* poisoned lock is ignored.
RunPublish ==
    /\ pc = "publish"
    /\ lock = "free"
    /\ DATASETS' = IF poisoned THEN DATASETS ELSE InsertAll(DATASETS, new_datasets)
    /\ new_datasets' = <<>>
    /\ pc' = "loop"
    /\ UNCHANGED <<now, registered_datasets, conn, poisoned, heap, time, todo,
                   updated_datasets, gd_calls, reader, histVars, codec, peer,
                   auxVars>>

\* The manager, its producers and the clock.
Next ==
    \/ Tick
    \/ \E d \in LoopIdents : register_dataset(d)
    \/ get_datasets
    \/ \E d \in Published : \E u \in Updates(DATASETS[d].syn) : Send(d, u)
    \/ RunStart
    \/ RunIteration
    \/ RunDrain
    \/ RunRebuild
    \/ RunPublish

Spec == Init /\ [][Next]_vars

\* The same with a reader of the published map.
ReaderNext ==
    \/ Tick
    \/ \E d \in ReaderIdents : register_dataset(d)
    \/ get_datasets
    \/ \E d \in Published : \E u \in Updates(DATASETS[d].syn) : Send(d, u)
    \/ \E d \in Published : ReaderRead(d)
    \/ RunStart
    \/ RunIteration
    \/ RunDrain
    \/ RunRebuild
    \/ RunPublish

ReaderSpec == Init /\ [][ReaderNext]_vars

\* The same with a second manager in the process, which registers and calls
\* get_datasets.
SharedNext ==
    \/ Tick
    \/ \E d \in ReaderIdents : register_dataset(d)
    \/ get_datasets
    \/ \E d \in Published : \E u \in Updates(DATASETS[d].syn) : Send(d, u)
    \/ \E d \in ReaderIdents : peer_register_dataset(d)
    \/ peer_get_datasets
    \/ \E d \in Published : ReaderRead(d)
    \/ RunStart
    \/ RunIteration
    \/ RunDrain
    \/ RunRebuild
    \/ RunPublish

SharedSpec == Init /\ [][SharedNext]_vars

\* The manager under a scheduler that keeps the clock and the manager thread
\* running: run is called, and every step of its loop that can be taken is
\* taken.
Fairness ==
    /\ WF_vars(Tick)
    /\ WF_vars(RunStart)
    /\ WF_vars(RunIteration)
    /\ WF_vars(RunDrain)
    /\ WF_vars(RunRebuild)
    /\ WF_vars(RunPublish)

FairSpec == Init /\ [][Next]_vars /\ Fairness

\* Registration alone, over every identity.
RegNext ==
    \/ \E d \in AllIdents : register_dataset(d)
    \/ get_datasets

RegSpec == Init /\ [][RegNext]_vars

\* Setting a manager up over a clock that moves: register_dataset called any
\* number of times, get_datasets, and producers that send before run is called.
IdemNext ==
    \/ SetupTick
    \/ \E d \in ReaderIdents : register_dataset_logged(d)
    \/ get_datasets
    \/ \E d \in Published : \E u \in Updates(DATASETS[d].syn) : Send(d, u)

IdemSpec == Init /\ [][IdemNext]_vars

\* ------------------------------------------------------------- the IP codec

\* The bytes an address is sampled from, and the sampled addresses: every V4
\* address over these bytes, and the V6 addresses whose first and last bytes
\* are among them.
ByteSamples == {0, 7, 228, 255}

CodecIps ==
    {V4(<<a, b, c, d>>) : a \in ByteSamples, b \in ByteSamples,
                          c \in ByteSamples, d \in ByteSamples}
        \cup {V6([i \in 1..16 |-> IF i = 1 THEN a ELSE IF i = 16 THEN b ELSE 0]) :
                 a \in ByteSamples, b \in ByteSamples}

CodecInit ==
    /\ InitManager
    /\ storage = "sound"
    /\ lists = NoLists
    /\ codec \in {[NoCodec EXCEPT !.ip = ip] : ip \in CodecIps}

managerVars ==
    <<now, registered_datasets, conn, DATASETS, poisoned, heap, pc, loopVars,
      gd_calls, reader, histVars, peer, auxVars>>

\* The address is encoded for an Add or a Remove.
CodecEncode ==
    /\ codec.stage = "idle"
    /\ codec' = [codec EXCEPT !.stage = "encoded", !.bytes = ip_to_vec8(codec.ip)]
    /\ UNCHANGED managerVars

\* The address is encoded by the Replace arm of update_ip_set.
CodecEncodeReplace ==
    /\ codec.stage = "idle"
    /\ codec' = [codec EXCEPT !.stage = "encoded",
                              !.bytes = to_le_bytes(codec.ip.n)]
    /\ UNCHANGED managerVars

\* The stored bytes are decoded by a loader.
CodecDecode ==
    /\ codec.stage = "encoded"
    /\ codec' = [codec EXCEPT !.stage = "decoded",
                              !.out = ip_form_vec8(codec.bytes)]
    /\ UNCHANGED managerVars

CodecNext == CodecEncode \/ CodecEncodeReplace \/ CodecDecode

CodecSpec == CodecInit /\ [][CodecNext]_vars

\* ------------------------------------------------------ the reference model

\* The in-memory dataset of each kind and the effect of an update on it: Add
\* inserts (a map keeps the latest value of a key), Remove deletes, Replace
\* takes the given dataset.
RefEmpty(kind) == IF kind = "IpMap" THEN EmptyMap ELSE {}

RefApply(kind, data, update) ==
    CASE update.op = "Replace" -> update.data
      [] update.op = "Add" ->
             IF kind = "IpMap" THEN MapInsert(data, update.key, update.val)
             ELSE data \cup {update.key}
      [] update.op = "Remove" ->
             IF kind = "IpMap" THEN MapRemove(data, update.key)
             ELSE data \ {update.key}

RECURSIVE Reference(_, _)
\* The reference dataset after the updates of log, in order.
Reference(kind, log) ==
    IF log = <<>> THEN RefEmpty(kind)
    ELSE RefApply(kind, Reference(kind, SubSeq(log, 1, Len(log) - 1)),
                  log[Len(log)])

\* The dataset published for identity d.
PublishedData(d) == heap[DATASETS[d].snap].data

\* Identity d has been sent updates, its inbox is empty again and the
\* iteration that emptied it has rebuilt and published.
Settled(d) ==
    /\ d \in Published
    /\ d \in Registered
    /\ pc = "loop"
    /\ sentlog[d] # <<>>
    /\ registered_datasets[d].q = <<>>

\* The effect an update has on the rows of the durable table, keys in the
\* byte form ip_to_vec8 gives them.
RefRows(kind, rows, update) ==
    LET enc(ip) == ip_to_vec8(ip)
    IN  CASE kind = "UpdateIpMap" /\ update.op = "Add" ->
                 MapInsert(rows, enc(update.key), update.val)
          [] kind = "UpdateIpMap" /\ update.op = "Replace" ->
                 [k \in {enc(ip) : ip \in DOMAIN update.data} |->
                     update.data[CHOOSE ip \in DOMAIN update.data : enc(ip) = k]]
          [] kind = "UpdateIpSet" /\ update.op = "Add" ->
                 MapInsert(rows, enc(update.key), "")
          [] kind = "UpdateIpSet" /\ update.op = "Replace" ->
                 [k \in {enc(ip) : ip \in update.data} |-> ""]
          [] kind \in {"UpdateIpMap", "UpdateIpSet"} /\ update.op = "Remove" ->
                 MapRemove(rows, enc(update.key))
          [] OTHER -> rows

\* The rows of the table of identity d (none while the table does not exist).
TableRows(c, d) == IF DebugName(d) \in DOMAIN c THEN c[DebugName(d)].rows ELSE NoRows

Lookup(m, ip) == IF ip \in DOMAIN m THEN m[ip] ELSE "absent"

\* The addresses looked up: the one sent, its neighbour, and the address whose
\* bytes are those of the one sent in the opposite order.
ProbeIps == {IP_2020, IP_2021, V4(<<228, 7, 0, 0>>)}

\* ----------------------------------------------- further specifications

\* The manager with the identities whose inbox the drain pass reads, and
\* producers that fill a dataset and empty it: Add, and Replace with an empty
\* dataset.
ReplaceIdents == {IpMac, BlockIp}

ReplaceUpdates(kind) ==
    {x \in Updates(kind) :
        x.op = "Add" \/ (x.op = "Replace" /\ x.data = RefEmpty(kind))}

ReplaceNext ==
    \/ Tick
    \/ \E d \in ReplaceIdents : register_dataset(d)
    \/ get_datasets
    \/ \E d \in Published :
           \E u \in ReplaceUpdates(DATASETS[d].syn) : Send(d, u)
    \/ RunStart
    \/ RunIteration
    \/ RunDrain
    \/ RunRebuild
    \/ RunPublish

ReplaceSpec == Init /\ [][ReplaceNext]_vars

\* The manager on a storage medium whose calls can return an error, with the
\* identity whose Replace is more than one storage call, and producers that
\* also send a Replace of two addresses.
FaultUpdates ==
    UpdateIpSet \cup {Update("Replace", IP_2020, "", {IP_2020, IP_2021})}

FaultInit ==
    /\ InitManager
    /\ storage = "failing"
    /\ codec = NoCodec
    /\ lists = NoLists

FaultNext ==
    \/ Tick
    \/ register_dataset(BlockIp)
    \/ get_datasets
    \/ \E d \in Published : \E u \in FaultUpdates : Send(d, u)
    \/ RunStart
    \/ RunIteration
    \/ RunDrain
    \/ RunRebuild
    \/ RunPublish

FaultSpec == FaultInit /\ [][FaultNext]_vars

\* The process of the manager ends after a completed iteration of run and a
\* new process opens a manager on the same path: the database file is what
\* the first left, the registry, the published map and the heap are new.  The
\* updates each inbox had delivered are kept as history.
Reopen ==
    /\ pc = "loop"
    /\ previous.opened < MaxReopen
    /\ previous' =
           [opened |-> previous.opened + 1,
            flushed |->
                [d \in DOMAIN previous.flushed \cup Registered |->
                    (IF d \in DOMAIN previous.flushed THEN previous.flushed[d]
                     ELSE <<>>)
                        \o (IF d \in Registered
                            THEN SubSeq(sentlog[d], 1,
                                        Recvd(registered_datasets, d))
                            ELSE <<>>)]]
    /\ registered_datasets' = EmptyFcn
    /\ DATASETS' = EmptyFcn
    /\ poisoned' = FALSE
    /\ heap' = <<>>
    /\ pc' = "new"
    /\ time' = 0
    /\ todo' = <<>>
    /\ updated_datasets' = {}
    /\ new_datasets' = <<>>
    /\ gd_calls' = 0
    /\ reader' = EmptyFcn
    /\ sentlog' = EmptyFcn
    /\ committed' = EmptyFcn
    /\ completed' = {}
    /\ local_chnl' = NoMessages
    /\ UNCHANGED <<now, conn, codec, peer, lock, storage, calls, lists,
                   stdout, chanVars>>

RestartNext ==
    \/ Tick
    \/ \E d \in ReaderIdents : register_dataset(d)
    \/ get_datasets
    \/ \E d \in Published : \E u \in Updates(DATASETS[d].syn) : Send(d, u)
    \/ RunStart
    \/ RunIteration
    \/ RunDrain
    \/ RunRebuild
    \/ RunPublish
    \/ Reopen

RestartSpec == Init /\ [][RestartNext]_vars

\* A reader's read of the published map in its steps: it takes the DATASETS
\* mutex of the Arc<Mutex<..>> get_datasets returned, clones handles while it
\* holds the guard, and drops the guard.
ReaderLock ==
    /\ gd_calls > 0
    /\ ~poisoned
    /\ lock = "free"
    /\ lock' = "reader"
    /\ UNCHANGED <<now, registered_datasets, conn, DATASETS, poisoned, heap, pc,
                   loopVars, gd_calls, reader, histVars, codec, peer,
                   local_chnl, storage, calls, previous, lists, stdout, chanVars>>

ReaderGet(d) ==
    /\ lock = "reader"
    /\ d \in Published
    /\ reader' = MapInsert(reader, d, DATASETS[d].snap)
    /\ UNCHANGED <<now, registered_datasets, conn, DATASETS, poisoned, heap, pc,
                   loopVars, gd_calls, histVars, codec, peer, auxVars>>

ReaderUnlock ==
    /\ lock = "reader"
    /\ lock' = "free"
    /\ UNCHANGED <<now, registered_datasets, conn, DATASETS, poisoned, heap, pc,
                   loopVars, gd_calls, reader, histVars, codec, peer,
                   local_chnl, storage, calls, previous, lists, stdout, chanVars>>

\* The manager and a reader whose read is followed step by step.
LockNext ==
    \/ Tick
    \/ \E d \in ReaderIdents : register_dataset(d)
    \/ get_datasets
    \/ \E d \in Published : \E u \in Updates(DATASETS[d].syn) : Send(d, u)
    \/ ReaderLock
    \/ \E d \in Published : ReaderGet(d)
    \/ ReaderUnlock
    \/ RunStart
    \/ RunIteration
    \/ RunDrain
    \/ RunRebuild
    \/ RunPublish

LockSpec == Init /\ [][LockNext]_vars

\* A component sends a Stop message through the Sender local_channel()
\* returns.
SendStop ==
    /\ pc # "panicked"
    /\ local_chnl.sent < MaxControl
    /\ local_chnl' = [q |-> Append(local_chnl.q, "Stop"),
                      sent |-> local_chnl.sent + 1]
    /\ UNCHANGED <<now, registered_datasets, conn, DATASETS, poisoned, heap, pc,
                   loopVars, gd_calls, reader, histVars, codec, peer, lock,
                   storage, calls, previous, lists, stdout, chanVars>>

\* The manager with a component that sends Stop, under the fair scheduler.
StopNext ==
    \/ Tick
    \/ \E d \in ReaderIdents : register_dataset(d)
    \/ get_datasets
    \/ \E d \in Published : \E u \in Updates(DATASETS[d].syn) : Send(d, u)
    \/ SendStop
    \/ RunStart
    \/ RunIteration
    \/ RunDrain
    \/ RunRebuild
    \/ RunPublish

StopSpec == Init /\ [][StopNext]_vars /\ Fairness

\* The list round trip: the tables of a list-valued dataset are created, an
\* Add(key, texts) is applied and the tables are loaded.
ListKeys == {IP_2020, IP_2021}
ListTexts == {"admin", "oncall"}
ListVals == UNION {[1..n -> ListTexts] : n \in 1..MaxList}
ListName == <<"IpDNS">>

ListInit ==
    /\ InitManager
    /\ storage = "sound"
    /\ codec = NoCodec
    /\ lists \in {[NoLists EXCEPT !.key = k, !.val = v] :
                     k \in ListKeys, v \in ListVals}

ListFrame ==
    UNCHANGED <<now, registered_datasets, DATASETS, poisoned, heap, pc,
                loopVars, gd_calls, reader, histVars, codec, peer, local_chnl,
                lock, storage, calls, previous, stdout, chanVars>>

\* create_map_ip_list(name).
ListCreate ==
    /\ lists.stage = "idle"
    /\ conn' = execute(conn, create_map_ip_list(ListName))
    /\ lists' = [lists EXCEPT !.stage = "created"]
    /\ ListFrame

\* update_map_ip_list(name, Add((key, texts))).
ListAdd ==
    /\ lists.stage = "created"
    /\ \E r \in update_map_ip_list(conn, ListName,
                                     Update("Add", lists.key, lists.val, EmptyMap)) :
           conn' = r.conn
    /\ lists' = [lists EXCEPT !.stage = "added"]
    /\ ListFrame

\* dataset_map_text_list(conn, name).
ListLoad ==
    /\ lists.stage = "added"
    /\ lists' = [lists EXCEPT !.stage = "loaded",
                              !.out = dataset_map_text_list(conn, ListName)]
    /\ conn' = conn
    /\ ListFrame

ListNext == ListCreate \/ ListAdd \/ ListLoad

ListSpec == ListInit /\ [][ListNext]_vars

\* Registration with custom names of every shape: a name of letters, the
\* empty name, and a name with a character that is not a letter, a digit or
\* an underscore.  SQLite takes '$' inside an unquoted identifier, and
\* dataset_ alone is an identifier, so CREATE TABLE runs for each of them.
InjectNames == {"tenant", "", "a$b"}

\* The characters of each of these names.
Chars(name) ==
    CASE name = "tenant" -> <<"t", "e", "n", "a", "n", "t">>
      [] name = "" -> <<>>
      [] name = "a$b" -> <<"a", "$", "b">>

\* [A-Za-z0-9_]
NameClass ==
    {"a", "b", "c", "d", "e", "f", "g", "h", "i", "j", "k", "l", "m", "n", "o",
     "p", "q", "r", "s", "t", "u", "v", "w", "x", "y", "z",
     "A", "B", "C", "D", "E", "F", "G", "H", "I", "J", "K", "L", "M", "N", "O",
     "P", "Q", "R", "S", "T", "U", "V", "W", "X", "Y", "Z",
     "0", "1", "2", "3", "4", "5", "6", "7", "8", "9", "_"}

\* The name matches [A-Za-z0-9_]+.
ValidName(name) ==
    /\ Chars(name) # <<>>
    /\ \A i \in 1..Len(Chars(name)) : Chars(name)[i] \in NameClass

NameIdents == {SiemDatasetType(t, n) : t \in CustomTags, n \in InjectNames}

NameNext ==
    \/ \E d \in NameIdents : register_dataset(d)
    \/ get_datasets

NameSpec == Init /\ [][NameNext]_vars

\* Registration with custom names that are also the name of another dataset:
\* the tag of a well-known identity, and a name two custom variants share.
CollideNames == {"IpMac", "tenant"}

CollideIdents ==
    {IpMac} \cup {SiemDatasetType(t, n) : t \in CustomTags, n \in CollideNames}

CollideNext ==
    \/ \E d \in CollideIdents : register_dataset(d)
    \/ get_datasets

CollideSpec == Init /\ [][CollideNext]_vars

\* The tables get_datasets names for identity d: those of the statements of
\* its create call and the one its loader scans.
GdTables(d) ==
    LET sql == GdArm(d).create
    IN  {sql[i].table : i \in 1..Len(sql)}
            \cup (IF GdArm(d).load = "none" THEN {} ELSE {GdName(d)})

\* The table run names for a registered identity d: the Debug form, in the
\* drain arms and in the rebuild arms that follow them.
RunTables(reg, d) ==
    IF reg[d].kind \in DrainKinds THEN {DebugName(d)} ELSE {}

\* Setting a manager up with an identity register_dataset has an arm for and
\* one it has none for.
Unlisted == SiemDatasetType(OtherTag, "")
UnknownIdents == {IpMac, Unlisted}

UnknownNext ==
    \/ SetupTick
    \/ \E d \in UnknownIdents : register_dataset_logged(d)
    \/ get_datasets
    \/ \E d \in Published : \E u \in Updates(DATASETS[d].syn) : Send(d, u)

UnknownSpec == Init /\ [][UnknownNext]_vars

\* A producer sends through a published handle whenever the inbox has room:
\* the channel is crossbeam_channel::bounded(INBOX_CAPACITY), and a send to a
\* full channel does not put the update in it.
Fill(d, update) ==
    /\ d \in Published
    /\ pc # "panicked"
    /\ DATASETS[d].s.mgr = Manager
    /\ LET inbox == DATASETS[d].s.inbox
       IN  /\ Len(registered_datasets[inbox].q) < INBOX_CAPACITY
           /\ registered_datasets' =
                  [registered_datasets EXCEPT ![inbox].q = Append(@, update)]
           /\ sentlog' = [sentlog EXCEPT ![inbox] = Append(@, update)]
    /\ UNCHANGED <<now, conn, DATASETS, poisoned, heap, pc, loopVars, gd_calls,
                   reader, committed, completed, codec, peer, auxVars>>

\* The manager under the fair scheduler with an identity whose listener is
\* UpdateTextSet, and a producer that keeps adding one text to it.
FillIdents == {BlockDomain}
FillUpdate == Update("Add", "default_ip", "", {})

FillNext ==
    \/ Tick
    \/ \E d \in FillIdents : register_dataset(d)
    \/ get_datasets
    \/ \E d \in Published : Fill(d, FillUpdate)
    \/ RunStart
    \/ RunIteration
    \/ RunDrain
    \/ RunRebuild
    \/ RunPublish

FillSpec == Init /\ [][FillNext]_vars /\ Fairness

\* The inbox of identity d is full.
Full(d) ==
    /\ d \in Registered
    /\ Len(registered_datasets[d].q) = INBOX_CAPACITY

\* Components that hold Senders of the manager's channels: a component clones
\* the Sender of a published handle or the one local_channel() returns, sends
\* an Add or a Stop through a Sender it holds, and drops it.
MaxHandles == 1

HandleClone(d) ==
    /\ d \in Published
    /\ DATASETS[d].s.mgr = Manager
    /\ LET inbox == DATASETS[d].s.inbox
       IN  /\ senders[inbox] < MaxHandles
           /\ senders' = [senders EXCEPT ![inbox] = @ + 1]
    /\ UNCHANGED <<now, registered_datasets, conn, DATASETS, poisoned, heap, pc,
                   loopVars, gd_calls, reader, histVars, codec, peer,
                   local_chnl, lock, storage, calls, previous, lists, stdout,
                   comp_channels, subscriber, sending, inserted>>

\* local_channel(): it borrows the manager, which run(&mut self) holds for
\* as long as it runs.
local_channel ==
    /\ NotRunning
    /\ senders[Control] < MaxHandles
    /\ senders' = [senders EXCEPT ![Control] = @ + 1]
    /\ UNCHANGED <<now, registered_datasets, conn, DATASETS, poisoned, heap, pc,
                   loopVars, gd_calls, reader, histVars, codec, peer,
                   local_chnl, lock, storage, calls, previous, lists, stdout,
                   comp_channels, subscriber, sending, inserted>>

HandleDrop(ch) ==
    /\ senders[ch] > 0
    /\ senders' = [senders EXCEPT ![ch] = @ - 1]
    /\ UNCHANGED <<now, registered_datasets, conn, DATASETS, poisoned, heap, pc,
                   loopVars, gd_calls, reader, histVars, codec, peer,
                   local_chnl, lock, storage, calls, previous, lists, stdout,
                   comp_channels, subscriber, sending, inserted>>

HandleSend(d, update) ==
    /\ d \in Published
    /\ senders[DATASETS[d].s.inbox] > 0
    /\ Send(d, update)

HandleSendStop == senders[Control] > 0 /\ SendStop

HandleNext ==
    \/ Tick
    \/ \E d \in ReaderIdents : register_dataset(d)
    \/ get_datasets
    \/ \E d \in Published : HandleClone(d)
    \/ local_channel
    \/ \E ch \in Channels : HandleDrop(ch)
    \/ \E d \in Published :
           \E u \in Updates(DATASETS[d].syn) :
               u.op = "Add" /\ HandleSend(d, u)
    \/ HandleSendStop
    \/ RunStart
    \/ RunIteration
    \/ RunDrain
    \/ RunRebuild
    \/ RunPublish

HandleSpec == Init /\ [][HandleNext]_vars

\* The manager with components that subscribe to datasets.  The kernel hands
\* the manager the subscriber channels of every dataset type before run; the
\* subscribers receive from their channels, the parser also reads the
\* published map under the DATASETS mutex, and the enricher can end, which
\* drops its Receiver.
SubIdents == {IpMac}

ChannelMaps ==
    {[d \in SubIdents |-> <<"parser">>],
     [d \in SubIdents |-> <<"parser", "enricher">>]}

\* set_dataset_channels(channels).
set_dataset_channels(channels) ==
    /\ NotRunning
    /\ comp_channels # channels
    /\ comp_channels' = channels
    /\ UNCHANGED <<now, registered_datasets, conn, DATASETS, poisoned, heap, pc,
                   loopVars, gd_calls, reader, histVars, codec, peer,
                   local_chnl, lock, storage, calls, previous, lists, stdout,
                   senders, subscriber, sending, inserted>>

\* A publish step that sends to the first channel of a type only.  The
\* variant the delivery property is tested on.
Comps_first(channels, d) ==
    IF d \in DOMAIN channels THEN SubSeq(channels[d], 1, 1) ELSE <<>>

\* comp_channels.get(&dataset.dataset_type()): the channels the publish step
\* sends a snapshot of type d to.
Comps(channels, d) == IF d \in DOMAIN channels THEN channels[d] ELSE <<>>

\* run, the publish step, its lock: DATASETS.lock() and comp_channels.lock();
\* the thread waits while the DATASETS mutex is held, and on a poisoned mutex
\* the iteration ends with nothing published.
PublishLock ==
    /\ pc = "publish"
    /\ lock = "free"
    /\ IF poisoned
       THEN /\ new_datasets' = <<>>
            /\ pc' = "loop"
            /\ UNCHANGED lock
       ELSE /\ lock' = "manager"
            /\ pc' = "insert"
            /\ UNCHANGED new_datasets
    /\ UNCHANGED <<now, registered_datasets, conn, DATASETS, poisoned, heap,
                   time, todo, updated_datasets, gd_calls, reader, histVars,
                   codec, peer, local_chnl, storage, calls, previous, lists,
                   stdout, chanVars>>

\* run, the publish step, one turn of its loop: the first of new_datasets is
\* removed and inserted into the published map; when none is left both guards
\* are dropped and the iteration ends.
PublishInsert ==
    /\ pc = "insert"
    /\ IF new_datasets = <<>>
       THEN /\ lock' = "free"
            /\ pc' = "loop"
            /\ UNCHANGED <<DATASETS, new_datasets, sending, inserted>>
       ELSE LET dataset == Head(new_datasets)
            IN  /\ DATASETS' = InsertAll(DATASETS, <<dataset>>)
                /\ new_datasets' = Tail(new_datasets)
                /\ sending' = [snap |-> dataset.snap,
                               variant |-> dataset.variant,
                               comps |-> Comps(comp_channels, dataset.variant)]
                /\ inserted' =
                       Append(inserted,
                              [snap |-> dataset.snap,
                               variant |-> dataset.variant,
                               comps |-> IF dataset.variant
                                               \in DOMAIN comp_channels
                                         THEN comp_channels[dataset.variant]
                                         ELSE <<>>])
                /\ pc' = "send"
                /\ UNCHANGED lock
    /\ UNCHANGED <<now, registered_datasets, conn, poisoned, heap, time, todo,
                   updated_datasets, gd_calls, reader, histVars, codec, peer,
                   local_chnl, storage, calls, previous, lists, stdout,
                   senders, comp_channels, subscriber>>

\* The Dataset message of a snapshot.
DatasetMessage(x) == [variant |-> x.variant, snap |-> x.snap]

\* run, the publish step, one comp_s.send(SiemMessage::Dataset(..)): the
\* thread waits while the channel is full, and the error of a channel whose
\* Receiver is dropped is ignored (let _ =).
PublishSend ==
    /\ pc = "send"
    /\ IF sending.comps = <<>>
       THEN /\ pc' = "insert"
            /\ sending' = NoSending
            /\ UNCHANGED subscriber
       ELSE LET s == Head(sending.comps)
            IN  /\ \/ subscriber[s].pc = "gone"
                   \/ Len(subscriber[s].q) < SubCapacity
                /\ subscriber' =
                       [subscriber EXCEPT
                           ![s].q = IF subscriber[s].pc = "gone" THEN @
                                    ELSE Append(@, DatasetMessage(sending)),
                           ![s].log = Append(@, DatasetMessage(sending))]
                /\ sending' = [sending EXCEPT !.comps = Tail(@)]
                /\ UNCHANGED pc
    /\ UNCHANGED <<now, registered_datasets, conn, DATASETS, poisoned, heap,
                   loopVars, gd_calls, reader, histVars, codec, peer,
                   local_chnl, lock, storage, calls, previous, lists, stdout,
                   senders, comp_channels, inserted>>

\* Subscriber s receives a message from its channel.
SubRecv(s) ==
    /\ subscriber[s].pc = "recv"
    /\ subscriber[s].q # <<>>
    /\ subscriber' = [subscriber EXCEPT ![s].q = Tail(@)]
    /\ UNCHANGED <<now, registered_datasets, conn, DATASETS, poisoned, heap, pc,
                   loopVars, gd_calls, reader, histVars, codec, peer,
                   local_chnl, lock, storage, calls, previous, lists, stdout,
                   senders, comp_channels, sending, inserted>>

\* Subscriber s goes to read the published map: it calls lock() on the
\* Arc<Mutex<..>> get_datasets returned, and waits for the mutex.
SubWant(s) ==
    /\ gd_calls > 0
    /\ subscriber[s].pc = "recv"
    /\ subscriber' = [subscriber EXCEPT ![s].pc = "lock"]
    /\ UNCHANGED <<now, registered_datasets, conn, DATASETS, poisoned, heap, pc,
                   loopVars, gd_calls, reader, histVars, codec, peer,
                   local_chnl, lock, storage, calls, previous, lists, stdout,
                   senders, comp_channels, sending, inserted>>

SubLock(s) ==
    /\ subscriber[s].pc = "lock"
    /\ lock = "free"
    /\ lock' = s
    /\ subscriber' = [subscriber EXCEPT ![s].pc = "read"]
    /\ UNCHANGED <<now, registered_datasets, conn, DATASETS, poisoned, heap, pc,
                   loopVars, gd_calls, reader, histVars, codec, peer,
                   local_chnl, storage, calls, previous, lists, stdout,
                   senders, comp_channels, sending, inserted>>

SubUnlock(s) ==
    /\ subscriber[s].pc = "read"
    /\ lock' = "free"
    /\ subscriber' = [subscriber EXCEPT ![s].pc = "recv"]
    /\ UNCHANGED <<now, registered_datasets, conn, DATASETS, poisoned, heap, pc,
                   loopVars, gd_calls, reader, histVars, codec, peer,
                   local_chnl, storage, calls, previous, lists, stdout,
                   senders, comp_channels, sending, inserted>>

\* Subscriber s ends: its Receiver is dropped with the messages in it.
SubDrop(s) ==
    /\ subscriber[s].pc = "recv"
    /\ subscriber' = [subscriber EXCEPT ![s].pc = "gone", ![s].q = <<>>]
    /\ UNCHANGED <<now, registered_datasets, conn, DATASETS, poisoned, heap, pc,
                   loopVars, gd_calls, reader, histVars, codec, peer,
                   local_chnl, lock, storage, calls, previous, lists, stdout,
                   senders, comp_channels, sending, inserted>>

SubNext ==
    \/ Tick
    \/ \E d \in SubIdents : register_dataset(d)
    \/ \E channels \in ChannelMaps : set_dataset_channels(channels)
    \/ get_datasets
    \/ \E d \in Published :
           \E u \in Updates(DATASETS[d].syn) : u.op = "Add" /\ Send(d, u)
    \/ \E s \in Subscribers : SubRecv(s)
    \/ SubWant("parser")
    \/ SubLock("parser")
    \/ SubUnlock("parser")
    \/ SubDrop("enricher")
    \/ RunStart
    \/ RunIteration
    \/ RunDrain
    \/ RunRebuild
    \/ PublishLock
    \/ PublishInsert
    \/ PublishSend

SubSpec == Init /\ [][SubNext]_vars

\* The manager with identities whose arm of get_datasets publishes under
\* their own key and identities whose arm names another key (Secrets and
\* CustomTextList publish under CustomTextList), and producers that send Add.
SenderIdents ==
    {IpMac, BlockIp, SiemDatasetType("Secrets", "tenant"),
     SiemDatasetType("CustomTextList", "tenant")}

SenderNext ==
    \/ Tick
    \/ \E d \in SenderIdents : register_dataset(d)
    \/ get_datasets
    \/ \E d \in Published :
           \E u \in Updates(DATASETS[d].syn) : u.op = "Add" /\ Send(d, u)
    \/ RunStart
    \/ RunIteration
    \/ RunDrain
    \/ RunRebuild
    \/ RunPublish

SenderSpec == Init /\ [][SenderNext]_vars

\* The manager beside a second manager of the process that registers an
\* identity whose load in get_datasets fails: the second manager panics with
\* the DATASETS mutex held, which poisons the mutex for the first.
PoisonIdents == {SiemDatasetType("HostVulnerable", "")}

PoisonNext ==
    \/ Tick
    \/ \E d \in ReaderIdents : register_dataset(d)
    \/ get_datasets
    \/ \E d \in Published :
           \E u \in Updates(DATASETS[d].syn) : u.op = "Add" /\ Send(d, u)
    \/ \E d \in PoisonIdents : peer_register_dataset(d)
    \/ peer_get_datasets
    \/ RunStart
    \/ RunIteration
    \/ RunDrain
    \/ RunRebuild
    \/ RunPublish

PoisonSpec == Init /\ [][PoisonNext]_vars

\* The list tables under any sequence of updates, on the database the
\* manager creates itself and on a database file that already holds both
\* tables of the schema text of create_map_ip_list (new(path) opens the file
\* it is given), as a tool that runs every statement of the text leaves it.
RECURSIVE execute_batch(_, _)
execute_batch(c, sql) ==
    IF sql = <<>> THEN c
    ELSE execute_batch(execute(c, <<Head(sql)>>), Tail(sql))

\* new(path) on a file with the parent and the child table.
ListOpen ==
    /\ lists.stage = "idle"
    /\ conn = EmptyFcn
    /\ conn' = execute_batch(conn, create_map_ip_list(ListName))
    /\ UNCHANGED lists
    /\ ListFrame

UpdateIpMapList ==
    {Update("Add", k, v, EmptyMap) : k \in ListKeys, v \in ListVals \cup {<<>>}}
        \cup {Update("Remove", k, <<>>, EmptyMap) : k \in ListKeys}
        \cup {Update("Replace", IP_2020, <<>>, EmptyMap)}

\* update_map_ip_list(name, update), any number of times.
ListUpdate(update) ==
    /\ lists.stage = "created"
    /\ conn[ListName].seq < MaxList
    /\ \E r \in update_map_ip_list(conn, ListName, update) : conn' = r.conn
    /\ UNCHANGED lists
    /\ ListFrame

OrphanNext ==
    \/ ListOpen
    \/ ListCreate
    \/ \E update \in UpdateIpMapList : ListUpdate(update)

OrphanSpec == ListInit /\ [][OrphanNext]_vars

\* ------------------------------------------------------------------ claims

\* C1: for every registered dataset, once every update sent to it has been
\* taken from its inbox and the run loop has completed the rebuild and the
\* publication of that iteration, the dataset published for the identity
\* equals the reference dataset of its kind after the same updates.
C1_RoundTrip ==
    \A d \in Published :
        Settled(d) => PublishedData(d) = Reference(DatasetKind(d), sentlog[d])

\* C2: under a fair schedule of the clock and of the run loop, the n-th update
\* enqueued on the inbox of a registered dataset is eventually removed from
\* the inbox and covered by the snapshot published for that dataset, as long
\* as the manager thread is alive: no update stays queued for ever while the
\* loop runs.
C2_EventuallyApplied ==
    \A d \in LoopIdents : \A n \in 1..MaxSends :
        (d \in DOMAIN sentlog /\ Len(sentlog[d]) >= n)
            ~> \/ pc = "panicked"
               \/ /\ d \in Published
                  /\ Recvd(registered_datasets, d) >= n
                  /\ heap[DATASETS[d].snap].upto >= n

\* C3: no update is silently dropped: whenever an update is removed from the
\* inbox of a dataset, the durable table of that dataset holds, after that
\* step, the rows it held before with the effect of the update.
C3_NoSilentDrop ==
    [][\A d \in Registered :
          (/\ d \in DOMAIN registered_datasets'
           /\ registered_datasets[d].q # <<>>
           /\ registered_datasets'[d].q = Tail(registered_datasets[d].q))
              => TableRows(conn', d) =
                     RefRows(registered_datasets[d].kind, TableRows(conn, d),
                             Head(registered_datasets[d].q))]_vars

\* C4: every identity whose registration has completed (register_dataset
\* followed by a get_datasets that returned) has, from then on, an inbox in
\* the registry and an entry in the published map keyed by that identity and
\* holding the dataset of that identity.
C4_OneInboxOnePublished ==
    \A d \in completed :
        /\ d \in Registered
        /\ d \in Published
        /\ DATASETS[d].variant = d
        /\ DATASETS[d].s = Sender(Manager, d)

\* C5: for every registered identity the kind the identity determines is the
\* kind of the listener stored for it in the registry and, when a dataset is
\* published under it, the kind and the variant of that dataset.
C5_KindAgreement ==
    \A d \in Registered :
        /\ SynKind(registered_datasets[d].kind) = DatasetKind(d)
        /\ d \in Published =>
               DATASETS[d].syn = DatasetKind(d) /\ DATASETS[d].variant = d

\* C6: encoding an address to its durable bytes, by ip_to_vec8 or by the
\* Replace arm of update_ip_set, and decoding the bytes with ip_form_vec8
\* gives Ok of the address, for V4 and for V6 addresses.
C6_CodecInverse == codec.stage = "decoded" => codec.out = Ok(codec.ip)

\* C7: for the IpMap dataset IpMac, after registration, get_datasets, one
\* Add(ip, text) sent through the published handle and the flush of the run
\* loop, the published dataset maps ip to text and holds no other address.
C7_AddThenLookup ==
    \A ip \in Ips : \A text \in Texts :
        (Settled(IpMac) /\ sentlog[IpMac] = <<Update("Add", ip, text, EmptyMap)>>)
            => /\ Lookup(PublishedData(IpMac), ip) = text
               /\ \A other \in ProbeIps \ {ip} :
                      Lookup(PublishedData(IpMac), other) = "absent"

\* The dataset a table's rows hold, keys decoded as the loaders decode them.
View(rows) ==
    [ip \in {ip_form_vec8(k).val : k \in DOMAIN rows} |->
        rows[CHOOSE k \in DOMAIN rows : ip_form_vec8(k).val = ip]]

\* The snapshot the reader holds for identity d.
Held(d) == heap[reader[d]]

\* C8: per-dataset publication is monotonic: a read of the published map never
\* gives the reader, for one identity, a snapshot of an earlier rebuild (or an
\* initial snapshot) after its previous read of that identity gave it the
\* snapshot of a later rebuild.
C8_MonotonicPublication ==
    [][\A d \in DOMAIN reader :
          d \in DOMAIN reader' => heap'[reader'[d]].build >= Held(d).build]_vars

\* C9: publication is atomic for readers: every snapshot a reader holds is the
\* whole content of a durable table of the identity: a snapshot built by the
\* run loop is the table as it was at the end of some drain pass, an initial
\* snapshot the table before the first drain pass.
C9_AtomicPublication ==
    \A d \in DOMAIN reader :
        IF Held(d).origin = "run"
        THEN \E rows \in committed[Held(d).owner] : Held(d).data = View(rows)
        ELSE Held(d).data = View(NoRows)

\* The reader holds a snapshot built after a drain pass that applied an Add
\* and then a Remove.
C9_Witness ==
    \E d \in DOMAIN reader :
        /\ Held(d).origin = "run" /\ Held(d).build = 1 /\ Held(d).upto = 2
        /\ sentlog[Held(d).owner][1].op = "Add"
        /\ sentlog[Held(d).owner][2].op = "Remove"

\* C10: a snapshot is immutable once published: the snapshot a reader has
\* captured holds the same contents after every step in which the reader does
\* not read that identity again.
C10_SnapshotImmutable ==
    [][\A d \in DOMAIN reader :
          (d \in DOMAIN reader' /\ reader'[d] = reader[d])
              => heap'[reader[d]] = Held(d)]_vars

\* The reader still holds a snapshot whose contents differ from those of the
\* snapshot published since for the same identity.
C10_Witness ==
    \E d \in DOMAIN reader :
        /\ reader[d] # DATASETS[d].snap
        /\ Held(d).data # PublishedData(d)

\* C11: register_dataset is idempotent: a call for an identity that is
\* already registered leaves the registry as it was: the identity keeps its
\* inbox with every update queued in it, and its last flush time.
C11_RegisterIdempotent ==
    [][(calls' # calls /\ calls'[Len(calls')].known)
          => registered_datasets' = registered_datasets]_vars

\* register_dataset has been called for an identity that was registered at
\* an earlier time and whose inbox held an update.
C11_Witness ==
    \E i \in 1..Len(calls) :
        /\ calls[i].known
        /\ calls[i].queued > 0
        /\ calls[i].time > registered_datasets[calls[i].dataset].t

\* The last update sent to the inbox of identity d.
LastSent(d) == sentlog[d][Len(sentlog[d])]

\* C12: once a Replace carrying an empty dataset has been flushed (taken from
\* the inbox, the iteration rebuilt and published), the dataset published for
\* the identity is empty, whatever the table held before.
C12_ReplaceEmpty ==
    \A d \in Published :
        (/\ Settled(d)
         /\ LastSent(d).op = "Replace"
         /\ LastSent(d).data = RefEmpty(DatasetKind(d)))
            => PublishedData(d) = RefEmpty(DatasetKind(d))

\* An Add was flushed and published in a snapshot that is not empty; then a
\* Replace with an empty dataset was flushed and the second rebuild is
\* published.
C12_Witness ==
    \E d \in Published :
        /\ Settled(d)
        /\ Len(sentlog[d]) = 2
        /\ sentlog[d][1].op = "Add"
        /\ LastSent(d).op = "Replace"
        /\ LastSent(d).data = RefEmpty(DatasetKind(d))
        /\ heap[DATASETS[d].snap].build = 2
        /\ \E a \in 1..Len(heap) :
               /\ heap[a].owner = d
               /\ heap[a].build = 1
               /\ heap[a].data # RefEmpty(DatasetKind(d))

\* C13: once a Replace(D) has been flushed, the durable table of the identity
\* holds exactly the entries of D: every entry of D and no other.
C13_ReplaceExact ==
    \A d \in Registered :
        (Settled(d) /\ LastSent(d).op = "Replace")
            => TableRows(conn, d) =
                   RefRows(registered_datasets[d].kind, NoRows, LastSent(d))

\* C14: Replace is all-or-nothing: the step that takes a Replace from the
\* inbox leaves the durable table either with the contents it had before or
\* with exactly the new entries, whether or not a storage call of the Replace
\* fails; the old rows deleted and only some of the new rows inserted is never
\* the outcome.
C14_ReplaceAllOrNothing ==
    [][\A d \in Registered :
          (/\ d \in DOMAIN registered_datasets'
           /\ registered_datasets[d].q # <<>>
           /\ registered_datasets'[d].q = Tail(registered_datasets[d].q)
           /\ Head(registered_datasets[d].q).op = "Replace")
              => \/ TableRows(conn', d) = TableRows(conn, d)
                 \/ TableRows(conn', d) =
                        RefRows(registered_datasets[d].kind, TableRows(conn, d),
                                Head(registered_datasets[d].q))]_vars

\* The keys of a dataset: the domain of a map, the elements of a set.
Keys(kind, data) == IF kind = "IpMap" THEN DOMAIN data ELSE data

\* C15: once Adds and Removes sent to a dataset have been flushed, the last of
\* them a Remove(k), key k is absent from the published dataset and the keys
\* present are exactly the other keys added and not removed since: Add(k)
\* then Remove(k) gives an empty dataset.
C15_AddThenRemove ==
    \A d \in Published :
        (/\ Settled(d)
         /\ \A i \in 1..Len(sentlog[d]) : sentlog[d][i].op \in {"Add", "Remove"}
         /\ LastSent(d).op = "Remove")
            => /\ LastSent(d).key \notin Keys(DatasetKind(d), PublishedData(d))
               /\ Keys(DatasetKind(d), PublishedData(d)) =
                      Keys(DatasetKind(d), Reference(DatasetKind(d), sentlog[d]))

\* C16: for a list-valued dataset, an Add(key, <<v1, ..., vn>>) that has been
\* applied to the tables is read back by the load as the key mapped to the
\* same n texts in the same order, for every n >= 1 and every key.
C16_ListRoundTrip ==
    lists.stage = "loaded"
        => /\ lists.out.ok
           /\ DOMAIN lists.out.val = {lists.key}
           /\ lists.out.val[lists.key] = lists.val

\* C17: durability across restarts: when the last update a dataset's inbox
\* delivered before the manager was shut down is an Add(k, v), a new manager
\* opened on the same path that registers the identity publishes an initial
\* snapshot that maps k to v.
C17_DurableAcrossRestart ==
    \A d \in Published :
        (/\ previous.opened > 0
         /\ d \in DOMAIN previous.flushed
         /\ previous.flushed[d] # <<>>
         /\ heap[DATASETS[d].snap].origin = "get_datasets")
            => LET last == previous.flushed[d][Len(previous.flushed[d])]
               IN  last.op = "Add"
                       => Lookup(PublishedData(d), last.key) = last.val

\* C18: after a Stop message has been sent on the control channel of the
\* manager, run eventually returns (after a last drain and publication).
C18_StopTerminates == (local_chnl.sent > 0) ~> (pc = "returned")

\* C19: readers and the manager never block each other: a reader holds no
\* lock the manager thread takes, so the manager thread is never at a step
\* that has to wait for a lock a reader holds.
C19_NeverBlocked == ~(pc = "publish" /\ lock = "reader")

\* C20: managers are independent: once the manager has returned its published
\* map from get_datasets, no step of the second manager of the process
\* (register_dataset, get_datasets) adds, replaces or removes an entry of it.
C20_ManagersIndependent ==
    [][(gd_calls > 0 /\ peer' # peer) => DATASETS' = DATASETS]_vars

\* C21: a custom identity whose name is empty or has a character outside
\* [A-Za-z0-9_] is rejected: it is never in the registry, and no table named
\* by such a name (dataset_<name> or dataset_list_<name>) is ever created.
C21_NameValidated ==
    \A d \in NameIdents :
        ~ValidName(d.name) =>
            /\ d \notin Registered
            /\ GdName(d) \notin DOMAIN conn
            /\ ListTable(GdName(d)) \notin DOMAIN conn

\* C22: the mapping from identity to table is injective over the registered
\* identities and the same in get_datasets and in run: once get_datasets has
\* returned, no table of the database is named for two registered identities,
\* and the table run names for an identity is one get_datasets named for it.
C22_TableInjective ==
    /\ \A d1 \in completed, d2 \in completed :
           d1 # d2 => GdTables(d1) \cap GdTables(d2) \cap DOMAIN conn = {}
    /\ \A d \in completed :
           RunTables(registered_datasets, d) \subseteq GdTables(d)

\* C23: a call of register_dataset for an identity whose kind is not
\* recognized returns an error to its caller and leaves the registry, the
\* database and the published datasets as they were.
C23_UnknownKindSurfaced ==
    [][(Len(calls') = Len(calls) + 1
           /\ ListenerKind(calls'[Len(calls')].dataset) = "none")
          => /\ calls'[Len(calls')].result = "UnknownKind"
             /\ registered_datasets' = registered_datasets
             /\ conn' = conn
             /\ DATASETS' = DATASETS]_vars

\* C24: an inbox never holds more than 128 updates, and under a fair schedule
\* of the clock and of the run loop a full inbox, of whatever kind, eventually
\* has room again, so that a send that waits for room completes.
C24_FullInboxDrains ==
    /\ [](\A d \in Registered :
             Len(registered_datasets[d].q) <= INBOX_CAPACITY)
    /\ \A d \in FillIdents : Full(d) ~> ~Full(d)

\* C25: in every iteration of run the inbox of a registered dataset (of a
\* kind the drain pass reads) is drained if and only if the time sampled at
\* the start of the iteration is at least last flush + 5000: the pass takes an
\* update only from an inbox for which that holds, and leaves an entry only
\* when that does not hold or the inbox is empty.
C25_DrainedIffDue ==
    [][(pc = "drain" /\ todo # <<>>
           /\ registered_datasets[Head(todo)].kind \in DrainKinds)
          => LET listener == registered_datasets[Head(todo)]
                 elapsed == time >= listener.t + DEBOUNCE_MS
             IN  /\ (todo' = todo
                        /\ listener.q # <<>>
                        /\ registered_datasets'[Head(todo)].q = Tail(listener.q))
                    => elapsed
                 /\ todo' = Tail(todo) => ~(elapsed /\ listener.q # <<>>)]_vars

\* C26: debounce collapse.  A step of the run loop rebuilds a dataset at most
\* once and puts at most one new SiemDataset of it up for publication; and
\* when it rebuilds a dataset that was rebuilt before, the time sampled by
\* this iteration is at least 5000 ms after the time sampled by the iteration
\* of the earlier rebuild (the last flush time of the listener).  Two rebuilds
\* in one iteration would be 0 ms apart.
C26_DebounceCollapse ==
    [][(heap' # heap \/ new_datasets' # new_datasets) =>
          \A d \in Registered :
              /\ Builds(heap', d) <= Builds(heap, d) + 1
              /\ Cardinality({i \in 1..Len(new_datasets') :
                                 new_datasets'[i].variant = d}) <= 1
              /\ (Builds(heap', d) > Builds(heap, d) /\ Builds(heap, d) > 0)
                    => time >= registered_datasets[d].t + DEBOUNCE_MS]_vars

\* A dataset has been rebuilt a second time, and the second snapshot is about
\* to be published.
C26_Witness ==
    /\ pc = "publish"
    /\ \E d \in Registered :
           /\ Builds(heap, d) = 2
           /\ \E i \in 1..Len(new_datasets) : new_datasets[i].variant = d

\* C27: every identity marked in an iteration of run is, in that iteration,
\* reloaded from storage and published, and has its last flush time set to
\* the time the iteration sampled: the rebuild pass ends with a snapshot of
\* the table of every marked identity up for publication and the flush times
\* set, and the publish step that follows puts each of them in the published
\* map.
C27_DirtyRebuilt ==
    [][/\ (pc = "rebuild" /\ pc' # pc) =>
              /\ pc' = "publish"
              /\ \A d \in updated_datasets :
                     /\ registered_datasets'[d].t = time
                     /\ \E i \in 1..Len(new_datasets') :
                            /\ new_datasets'[i].variant = d
                            /\ Ok(heap'[new_datasets'[i].snap].data) =
                                   Load(RebuildLoader(registered_datasets[d].kind),
                                        conn, DebugName(d))
       /\ (pc = "publish" /\ pc' # pc) =>
              \A d \in updated_datasets :
                  /\ d \in DOMAIN DATASETS'
                  /\ \E i \in 1..Len(new_datasets) :
                         DATASETS'[d] = new_datasets[i]]_vars

\* C28: an identity is marked in a drain pass only if an update drained for
\* it was applied to storage successfully: the step of the pass that takes an
\* update from the inbox of an identity not yet marked marks it only when the
\* database it leaves is that of a successful apply.
C28_DirtyOnlyOnSuccess ==
    [][(pc = "drain" /\ todo # <<>> /\ updated_datasets' # updated_datasets)
          => LET d == Head(todo)
                 listener == registered_datasets[d]
             IN  \E r \in Outcomes(listener.kind, conn, DebugName(d),
                                   Head(listener.q)) :
                     r.ok /\ r.conn = conn']_vars

\* C29: a failed apply does not abort the drain pass and is recorded: the
\* step of the pass that takes an update whose apply fails leaves the manager
\* in the pass, on the same inbox, with the rest of the inbox and the entries
\* after it still to be visited, and writes a line about the failure to
\* standard output (the one place the manager writes messages to).
C29_FailedApplyLogged ==
    [][(/\ pc = "drain" /\ todo # <<>>
        /\ registered_datasets[Head(todo)].q # <<>>
        /\ registered_datasets'[Head(todo)].q =
               Tail(registered_datasets[Head(todo)].q)
        /\ LET d == Head(todo)
               listener == registered_datasets[d]
           IN  ~\E r \in Outcomes(listener.kind, conn, DebugName(d),
                                  Head(listener.q)) : r.ok /\ r.conn = conn')
          => /\ pc' = "drain"
             /\ todo' = todo
             /\ stdout' # stdout]_vars

\* The load of the rebuild pass fails for a marked identity.
LoadFails(d) ==
    /\ RebuildLoader(registered_datasets[d].kind) # "none"
    /\ ~Load(RebuildLoader(registered_datasets[d].kind), conn, DebugName(d)).ok

\* C30: a load failure in the rebuild pass is fatal: the rebuild step in which
\* the load of a marked identity fails ends the manager thread (a panic) and
\* publishes nothing, and a manager that has panicked takes no further step
\* and publishes nothing afterwards, so the published map keeps the entries it
\* had.
C30_LoadFailureFatal ==
    [][/\ (pc = "rebuild" /\ pc' # pc /\ \E d \in updated_datasets : LoadFails(d))
              => (pc' = "panicked" /\ DATASETS' = DATASETS)
       /\ pc = "panicked"
              => (pc' = "panicked" /\ DATASETS' = DATASETS
                     /\ registered_datasets' = registered_datasets
                     /\ conn' = conn)]_vars

\* The manager has panicked in the rebuild pass of run on the failed load of
\* a marked identity, whose published entry is still the one get_datasets
\* put there.
C30_Witness ==
    /\ pc = "panicked"
    /\ \E d \in updated_datasets :
           /\ LoadFails(d)
           /\ d \in Published
           /\ heap[DATASETS[d].snap].origin = "get_datasets"

\* The dataset data holds what a full scan of rows gives for a listener of
\* this kind: one entry per row, under the address the bytes of the row's key
\* decode to and with the row's value; an address set is loaded only from a
\* table without rows.
Represents(kind, rows, data) ==
    IF kind = "UpdateIpMap"
    THEN /\ DOMAIN data = {ip_form_vec8(k).val : k \in DOMAIN rows}
         /\ \A k \in DOMAIN rows : data[ip_form_vec8(k).val] = rows[k]
    ELSE DOMAIN rows = {} /\ data = {}

\* C31: every snapshot the rebuild pass publishes is a full scan of the table
\* of its dataset taken after the updates drained in that iteration were
\* applied: no apply changes the database between the end of the drain pass
\* and the publication, and each SiemDataset the publish step inserts holds
\* one entry for every row the table has then, built after every update
\* received so far from the inbox.
C31_SnapshotIsFullScan ==
    [][/\ pc \in {"rebuild", "publish"} => conn' = conn
       /\ (pc = "publish" /\ pc' = "loop") =>
              \A i \in 1..Len(new_datasets) :
                  LET nd == new_datasets[i]
                      d == nd.variant
                  IN  /\ Represents(registered_datasets[d].kind,
                                    TableRows(conn, d), heap[nd.snap].data)
                      /\ heap[nd.snap].upto = Recvd(registered_datasets, d)]_vars

\* A snapshot of a table that holds a row is about to be published.
C31_Witness ==
    /\ pc = "publish"
    /\ \E i \in 1..Len(new_datasets) :
           /\ TableRows(conn, new_datasets[i].variant) # NoRows
           /\ heap[new_datasets[i].snap].upto > 0

\* C32: within one dataset the updates are applied to storage in the order in
\* which they were sent by its producer: the step of the drain pass that
\* pulls an update pulls the oldest one of the inbox, which is the n-th sent
\* when n - 1 were pulled before, in this iteration or an earlier one, and the
\* database it leaves is that of applying this update.
C32_AppliedInOrder ==
    [][(/\ pc = "drain" /\ todo # <<>>
        /\ Len(registered_datasets'[Head(todo)].q)
               < Len(registered_datasets[Head(todo)].q))
          => LET d == Head(todo)
                 listener == registered_datasets[d]
                 n == Recvd(registered_datasets, d) + 1
             IN  /\ registered_datasets'[d].q = Tail(listener.q)
                 /\ Head(listener.q) = sentlog[d][n]
                 /\ \E r \in Outcomes(listener.kind, conn, DebugName(d),
                                      sentlog[d][n]) : r.conn = conn']_vars

\* Two different updates sent to one dataset have both been pulled in the
\* first drain pass that read its inbox.
C32_Witness ==
    /\ pc = "drain"
    /\ \E d \in updated_datasets :
           /\ Len(sentlog[d]) = 2
           /\ sentlog[d][1] # sentlog[d][2]
           /\ Recvd(registered_datasets, d) = 2
           /\ Builds(heap, d) = 0

\* C33: the control channel and the inboxes are never observed as
\* disconnected: whatever Senders the components clone and drop, neither the
\* try_recv at the head of an iteration of run nor a try_recv of the drain
\* pass takes the manager to its panic.
C33_NeverDisconnected ==
    [][(pc = "loop" \/ pc = "drain") => pc' # "panicked"]_vars

\* The drain pass is at an inbox it has emptied in this pass, and the
\* components have dropped every Sender of that inbox and of the control
\* channel after sending through them: the next try_recv is on an empty
\* channel of which only the manager holds a Sender.
C33_Witness ==
    /\ pc = "drain"
    /\ todo # <<>>
    /\ Head(todo) \in updated_datasets
    /\ registered_datasets[Head(todo)].q = <<>>
    /\ senders[Head(todo)] = 0
    /\ senders[Control] = 0
    /\ local_chnl.sent > 0

\* The manager thread waits in a send of the publish step, with the DATASETS
\* mutex held, on the full channel of subscriber s.
SendWaits(s) ==
    /\ pc = "send"
    /\ sending.comps # <<>>
    /\ Head(sending.comps) = s
    /\ subscriber[s].pc # "gone"
    /\ Len(subscriber[s].q) >= SubCapacity

\* C34: the publish step of run always completes: in no reachable state does
\* the manager thread wait, holding the DATASETS mutex, in a send to the full
\* channel of a subscriber that itself waits for the DATASETS mutex.
C34_PublishCompletes ==
    \A s \in Subscribers : ~(SendWaits(s) /\ subscriber[s].pc = "lock")

\* The Dataset messages that are due to subscriber s: those of the snapshots
\* run inserted into the published map while the channel of s was registered
\* for their type, in the order of the inserts.
RECURSIVE Due_messages(_, _)
Due_messages(ins, s) ==
    IF ins = <<>> THEN <<>>
    ELSE LET e == ins[Len(ins)]
             before == Due_messages(SubSeq(ins, 1, Len(ins) - 1), s)
         IN  IF \E i \in 1..Len(e.comps) : e.comps[i] = s
             THEN Append(before, DatasetMessage(e))
             ELSE before

\* C35: every snapshot run inserts into the published map is sent as a
\* Dataset message to every subscriber channel registered for its type, and
\* the messages are sent to a subscriber in the order of the inserts: the
\* messages sent to a subscriber are those due to it, but for the last while
\* the publish step has still to send it.
C35_InsertedIsSent ==
    \A s \in Subscribers :
        LET due == Due_messages(inserted, s)
        IN  subscriber[s].log =
                IF \E i \in 1..Len(sending.comps) : sending.comps[i] = s
                THEN SubSeq(due, 1, Len(due) - 1)
                ELSE due

\* Two snapshots of one dataset have been inserted and sent to two
\* subscribers, and the publish step is over.
C35_Witness ==
    /\ pc = "loop"
    /\ Len(inserted) = 2
    /\ \A s \in Subscribers : Len(subscriber[s].log) = 2

\* C36: the Sender inside every published handle, initial or republished, is
\* a Sender of the inbox the registry of its manager stores for the identity
\* the handle is published under, and that inbox carries the updates of the
\* handle's dataset type.
C36_HandleFeedsOwnInbox ==
    \A k \in Published :
        LET h == DATASETS[k]
            reg == IF h.s.mgr = Manager THEN registered_datasets
                   ELSE peer.registered_datasets
        IN  /\ h.variant = k
            /\ h.s.inbox = k
            /\ k \in DOMAIN reg
            /\ SynKind(reg[k].kind) = h.syn

\* Two identities are published, one by get_datasets and one republished by
\* run after an update sent through its first handle was applied.
C36_Witness ==
    /\ pc = "loop"
    /\ \E k1, k2 \in Published :
           /\ heap[DATASETS[k1].snap].origin = "get_datasets"
           /\ heap[DATASETS[k2].snap].origin = "run"
           /\ heap[DATASETS[k2].snap].upto > 0

\* C37: the last_flush_millis of a dataset advances only in an iteration of
\* run that inserts a new snapshot of the dataset into the published map: the
\* rebuild pass advances it only for a dataset whose new snapshot it hands to
\* the publish step, unless the manager panics, and the publish step inserts
\* every snapshot it is handed.
C37_FlushOnlyWhenPublished ==
    [][/\ (pc = "rebuild" /\ pc' # "panicked") =>
              \A d \in Registered :
                  registered_datasets'[d].t # registered_datasets[d].t
                      => \E i \in 1..Len(new_datasets') :
                             new_datasets'[i].variant = d
       /\ (pc = "publish" /\ pc' = "loop") =>
              \A i \in 1..Len(new_datasets) :
                  DATASETS'[new_datasets[i].variant] = new_datasets[i]]_vars

\* C38: the table get_datasets creates for a registered identity has the
\* schema the run loop uses for it: once get_datasets has returned, the load
\* query of the identity's rebuild arm can be prepared, and so can the
\* statement that applies an Add in its drain arm.
C38_SchemaAgreement ==
    \A d \in completed :
        LET kind == registered_datasets[d].kind
        IN  /\ ~LoadFails(d)
            /\ (kind \in DrainKinds /\ TableRows(conn, d) = NoRows) =>
                   \A r \in Apply(kind, conn, DebugName(d),
                                  Update("Add", IP_2020,
                                         IF kind = "UpdateIpMapList"
                                         THEN <<"default_ip">>
                                         ELSE "default_ip", EmptyMap)) :
                       r.ok

====
